---------------------------- MODULE Spec2Model ----------------------------
(***************************************************************************)
(* A model of the BusTub storage core: the LRU-K replacer, the buffer pool *)
(* manager built on it and the B+ tree index.                              *)
(*                                                                         *)
(* The buffer pool manager modelled here is the revision with a complete   *)
(* DeletePage (src/unnamed/part_001); the replacer is src/unnamed/part_000.*)
(***************************************************************************)
EXTENDS Integers, Sequences, FiniteSets, TLC

(***************************************************************************)
(* Bounds of the model.                                                    *)
(***************************************************************************)
PoolSize == 2
    \* pool_size: number of frames of the buffer pool
ReplacerK == 2
    \* replacer_k: the K of LRU-K
MaxPages == 3
    \* page ids 0 .. MaxPages-1 can be allocated or fetched
MaxTime == 4
    \* RecordAccess is not called once current_timestamp_ reached MaxTime
MaxPin == 1
    \* FetchPage does not pin a resident page beyond this count
MaxData == 1
    \* a page's bytes are one cell holding 0 .. MaxData (0: zeroed memory)

LeafMaxSize == 3
    \* leaf_max_size of the B+ tree
InternalMaxSize == 3
    \* internal_max_size of the B+ tree
MaxKey == 3
    \* keys are 1 .. MaxKey (0: the key of zeroed memory)
MaxValue == 2
    \* record ids are 1 .. MaxValue
MaxInserts == 4
    \* Insert is not called more than MaxInserts times

MaxK == 3
    \* a replacer on its own is constructed with k in 1 .. MaxK
MaxAccesses == 5
    \* on a replacer on its own RecordAccess is not called once
    \* current_timestamp_ reached MaxAccesses
MaxGuards == 3
    \* the clients of the manager have at most MaxGuards page guards alive
MaxInsertKey == 9
MaxTreeInserts == 6
    \* a tree on its own is given keys 1 .. MaxInsertKey by at most
    \* MaxTreeInserts Insert calls
MinNodeSize == 3
MaxNodeSize == 4
    \* a tree on its own is constructed with leaf_max_size and
    \* internal_max_size in MinNodeSize .. MaxNodeSize
MaxGuardTime == 3
    \* the clients that use guards take no frame once current_timestamp_
    \* reached MaxGuardTime
MaxWriters == 2
    \* the threads that call BPlusTree::Insert concurrently
MaxWriterKey == 5
    \* the keys the concurrent Insert calls choose from: 1 .. MaxWriterKey
MaxWriterInserts == 4
    \* the Insert calls made in one behaviour of the concurrent writers
MaxTrieKeyLen == 2
    \* the keys of the trie are the strings over Chars of at most this length
MaxTrieValue == 2
    \* the values put in the trie: 1 .. MaxTrieValue
MaxTrieOps == 3
    \* the Put and Remove calls made in one behaviour of the trie
MaxStoreThreads == 2
    \* the threads that call the TrieStore concurrently
MaxStoreKeyLen == 1
    \* the keys given to the TrieStore are the strings over Chars of at most
    \* this length
MaxStoreCalls == 3
    \* the Get, Put and Remove calls made in one behaviour of the TrieStore

(***************************************************************************)
(* Program constants.                                                      *)
(***************************************************************************)
INVALID_PAGE_ID == -1
NoFrame == -1
    \* "no frame": the -1 of LRUKReplacer::Evict, the nullptr of the BPM

Frames == 0 .. (PoolSize - 1)
PageIds == 0 .. (MaxPages - 1)
Data == 0 .. MaxData
DiskIds == PageIds \cup {INVALID_PAGE_ID}
    \* the page ids WritePage is called with
OutOfRangeFrame == PoolSize
    \* stands for every frame id f with static_cast<size_t>(f) >= replacer_size_

VARIABLES
    pages,          \* pages_[f]: [page_id, pin_count, is_dirty, data]
    page_table,     \* page_table_: page id -> frame id (a function on its keys)
    free_list,      \* free_list_: sequence of frame ids
    next_page_id,   \* next_page_id_
    replacer,       \* *replacer_: the LRUKReplacer's fields
    disk,           \* the disk manager: page id -> the bytes last passed to
                    \* WritePage for it (zeroes before the first write)
    content,        \* history: page id -> the bytes last left in the page by a
                    \* holder that unpinned it dirty (initially the disk's bytes)
    last,           \* history: the last call, its result and what it did
    tree,           \* the B+ tree: [pages, root, next], see below
    stored,         \* history: key -> the value most recently inserted for it
                    \* and not removed since (0: none)
    tlast,          \* history: the last call on the tree and its result
    threads,        \* the threads inside BPlusTree::Insert: thread -> [pc, key,
                    \* cur, parent, held], see below
    guards,         \* the page guards the clients have, in the order of their
                    \* construction: a sequence of records, see below
    latches,        \* the rwlatch_ of each frame: [readers, writer]
    glast,          \* history: the latch and UnpinPage calls the last
                    \* operation on a guard made, in order
    trie            \* the tries made so far: [heap, versions, fault], see below

bpmVars == <<pages, page_table, free_list, next_page_id, replacer, disk, content, last>>
treeVars == <<tree, stored, tlast, threads>>
guardVars == <<guards, latches, glast>>
vars == <<pages, page_table, free_list, next_page_id, replacer, disk, content, last,
          tree, stored, tlast, threads, guards, latches, glast, trie>>

(***************************************************************************)
(* Sequence helpers (std::list operations).                                *)
(***************************************************************************)
SeqRemove(s, x) == SelectSeq(s, LAMBDA e : e # x)
    \* std::list::remove(x): drops every element equal to x

SeqContains(s, x) == \E i \in 1 .. Len(s) : s[i] = x

RemoveAt(s, i) == SubSeq(s, 1, i - 1) \o SubSeq(s, i + 1, Len(s))

(***************************************************************************)
(* LRU-K replacer.  A replacer value is a record                           *)
(*   node_store       : frame -> [tracked, history, is_evictable]          *)
(*   less_k_frames    : list of frames with fewer than K accesses          *)
(*   k_frames         : list of frames with K accesses                     *)
(*   current_timestamp                                                     *)
(*   k                : k_                                                 *)
(* (curr_size_ is only ever decremented and never read; it is left out.)   *)
(***************************************************************************)
NoNode == [tracked |-> FALSE, history |-> <<>>, is_evictable |-> FALSE]

\* LRUKReplacer::LRUKReplacer(num_frames, k)
ReplacerNew(k) ==
    [node_store |-> [f \in Frames |-> NoNode],
     less_k_frames |-> <<>>,
     k_frames |-> <<>>,
     current_timestamp |-> 0,
     k |-> k]

\* the replacer the buffer pool manager constructs
ReplacerInit == ReplacerNew(ReplacerK)

\* get_evictable_from_list: position of the first evictable frame, 0 if none
FirstEvictable(r, frames) ==
    IF \E i \in 1 .. Len(frames) : r.node_store[frames[i]].is_evictable
    THEN CHOOSE i \in 1 .. Len(frames) :
            /\ r.node_store[frames[i]].is_evictable
            /\ \A j \in 1 .. (i - 1) : ~r.node_store[frames[j]].is_evictable
    ELSE 0

\* ReplacerEvict without node_store_.erase(to_evict)
ReplacerEvictKeepsNode(r) ==
    LET il == FirstEvictable(r, r.less_k_frames)
        ik == FirstEvictable(r, r.k_frames)
    IN  IF il # 0
        THEN [ok |-> TRUE, frame |-> r.less_k_frames[il],
              rep |-> [r EXCEPT !.less_k_frames = RemoveAt(@, il)]]
        ELSE IF ik # 0
        THEN [ok |-> TRUE, frame |-> r.k_frames[ik],
              rep |-> [r EXCEPT !.k_frames = RemoveAt(@, ik)]]
        ELSE [ok |-> FALSE, frame |-> NoFrame, rep |-> r]

\* LRUKReplacer::Evict: [ok, frame, rep]
ReplacerEvict(r) ==
    LET il == FirstEvictable(r, r.less_k_frames)
        ik == FirstEvictable(r, r.k_frames)
    IN  IF il # 0
        THEN [ok |-> TRUE, frame |-> r.less_k_frames[il],
              rep |-> [r EXCEPT !.less_k_frames = RemoveAt(@, il),
                                !.node_store[r.less_k_frames[il]] = NoNode]]
        ELSE IF ik # 0
        THEN [ok |-> TRUE, frame |-> r.k_frames[ik],
              rep |-> [r EXCEPT !.k_frames = RemoveAt(@, ik),
                                !.node_store[r.k_frames[ik]] = NoNode]]
        ELSE [ok |-> FALSE, frame |-> NoFrame, rep |-> r]

\* LRUKReplacer::RecordAccess, for frame_id < replacer_size_
ReplacerRecordAccess(r, f) ==
    LET ts == r.current_timestamp + 1
        fresh == ~r.node_store[f].tracked
        lk0 == IF fresh THEN Append(r.less_k_frames, f) ELSE r.less_k_frames
        h0 == Append(r.node_store[f].history, ts)
        h == IF Len(h0) > r.k THEN Tail(h0) ELSE h0
        node == [tracked |-> TRUE, history |-> h,
                 is_evictable |-> r.node_store[f].is_evictable]
    IN  [r EXCEPT
         !.node_store = [r.node_store EXCEPT ![f] = node],
         !.current_timestamp = ts,
         !.less_k_frames =
            IF Len(h) < r.k THEN Append(SeqRemove(lk0, f), f)
            ELSE IF Len(h) = r.k /\ ~SeqContains(r.k_frames, f)
            THEN SeqRemove(lk0, f)
            ELSE lk0,
         !.k_frames =
            IF Len(h) < r.k THEN r.k_frames
            ELSE IF Len(h) = r.k
            THEN Append(SeqRemove(r.k_frames, f), f)
            ELSE r.k_frames]

\* LRUKReplacer::RecordAccess: [threw, rep]
ReplacerRecordAccessOp(r, f) ==
    IF f \notin Frames
    THEN [threw |-> TRUE, rep |-> r]            \* std::out_of_range
    ELSE [threw |-> FALSE, rep |-> ReplacerRecordAccess(r, f)]

\* LRUKReplacer::SetEvictable: [threw, rep]
ReplacerSetEvictable(r, f, set_evictable) ==
    IF f \notin Frames
    THEN [threw |-> TRUE, rep |-> r]            \* std::out_of_range
    ELSE IF r.node_store[f].tracked
    THEN [threw |-> FALSE,
          rep |-> [r EXCEPT !.node_store[f].is_evictable = set_evictable]]
    ELSE [threw |-> TRUE, rep |-> r]            \* std::runtime_error

\* ReplacerRemove without node_store_.erase(it)
ReplacerRemoveListsOnly(r, f) ==
    IF f \notin Frames
    THEN [threw |-> TRUE, rep |-> r]
    ELSE [threw |-> FALSE,
          rep |-> [r EXCEPT !.k_frames = SeqRemove(@, f),
                            !.less_k_frames = SeqRemove(@, f)]]

\* LRUKReplacer::Remove: [threw, rep]
ReplacerRemove(r, f) ==
    IF f \notin Frames
    THEN [threw |-> TRUE, rep |-> r]            \* std::out_of_range
    ELSE [threw |-> FALSE,
          rep |-> [r EXCEPT !.node_store[f] = NoNode,
                            !.k_frames = SeqRemove(@, f),
                            !.less_k_frames = SeqRemove(@, f)]]

\* LRUKReplacer::Size
ReplacerSize(r) ==
    Cardinality({f \in Frames :
                    r.node_store[f].tracked /\ r.node_store[f].is_evictable})


(***************************************************************************)
(* Buffer pool manager.  Each method is a sequence of statements acting on *)
(* a record st of the manager's fields; st.log records the disk calls and  *)
(* the frame and page-table updates in the order the method makes them.    *)
(***************************************************************************)
ZeroPage == [page_id |-> INVALID_PAGE_ID, pin_count |-> 0, is_dirty |-> FALSE, data |-> 0]

Event(e, f, p, d) == [ev |-> e, frame |-> f, page_id |-> p, data |-> d]

\* the manager's fields in the current state, with an empty log
Fields ==
    [pages |-> pages, page_table |-> page_table, free_list |-> free_list,
     next_page_id |-> next_page_id, replacer |-> replacer, disk |-> disk,
     log |-> <<>>]

\* page_table_.find(p) != page_table_.end()
InTable(st, p) == p \in PageIds /\ st.page_table[p] # NoFrame

\* disk_manager_->WritePage(pages_[f].page_id_, pages_[f].data_)
WritePage(st, f) ==
    LET pid == st.pages[f].page_id
        d == st.pages[f].data
    IN  [st EXCEPT !.disk[pid] = d,
                   !.log = Append(@, Event("WritePage", f, pid, d))]

\* disk_manager_->ReadPage(p, pages_[f].data_)
ReadPage(st, f, p) ==
    [st EXCEPT !.pages[f].data = st.disk[p],
               !.log = Append(@, Event("ReadPage", f, p, st.disk[p]))]

\* pages_[f].ResetMemory()
ResetMemory(st, f) ==
    [st EXCEPT !.pages[f].data = 0,
               !.log = Append(@, Event("ResetMemory", f, st.pages[f].page_id, st.pages[f].data))]

\* page_table_.erase(p)
EraseEntry(st, p) ==
    [st EXCEPT !.page_table = IF p \in PageIds THEN [@ EXCEPT ![p] = NoFrame] ELSE @,
               !.log = Append(@, Event("Erase", IF p \in PageIds THEN st.page_table[p] ELSE NoFrame, p, 0))]

\* page_table_[p] = f
InstallEntry(st, p, f) ==
    [st EXCEPT !.page_table[p] = f,
               !.log = Append(@, Event("Install", f, p, 0))]

\* pages_[f].page_id_ = p
SetPageId(st, f, p) ==
    [st EXCEPT !.pages[f].page_id = p,
               !.log = Append(@, Event("SetPageId", f, p, st.pages[f].data))]

\* replacer_->RecordAccess(f); replacer_->SetEvictable(f, false);
RecordAndPin(st, f) ==
    LET r1 == ReplacerRecordAccess(st.replacer, f)
    IN  [st EXCEPT !.replacer = ReplacerSetEvictable(r1, f, FALSE).rep]

\* the frame NewPage and FetchPage take: the front of the free list, else the
\* replacer's victim.  u is the value of the uninitialised victim_frame, which
\* is what NewPage goes on with should Evict find nothing.
TakeFrame(st, u) ==
    IF st.free_list # <<>>
    THEN [ok |-> TRUE, frame |-> Head(st.free_list), src |-> "free",
          st |-> [st EXCEPT !.free_list = Tail(@)]]
    ELSE LET e == ReplacerEvict(st.replacer)
         IN  [ok |-> e.ok, frame |-> IF e.ok THEN e.frame ELSE u, src |-> "evict",
              st |-> [st EXCEPT !.replacer = e.rep]]

\* NewPageVictim with the frame reset before it is written to disk
NewPageVictimResetFirst(st, f) ==
    IF st.pages[f].is_dirty
    THEN WritePage(EraseEntry(ResetMemory(st, f), st.pages[f].page_id), f)
    ELSE st

\* NewPage lines 53-58: what is done with a dirty victim
NewPageVictim(st, f) ==
    IF st.pages[f].is_dirty
    THEN ResetMemory(EraseEntry(WritePage(st, f), st.pages[f].page_id), f)
    ELSE st

\* BufferPoolManager::NewPage
NewPageOp(st, u) ==
    IF ReplacerSize(st.replacer) = 0 /\ st.free_list = <<>>
    THEN [st |-> st, res |-> "null", src |-> "none"]
    ELSE LET t == TakeFrame(st, u)
             f == t.frame
             s1 == NewPageVictim(t.st, f)
             p == s1.next_page_id
             s2 == [SetPageId(s1, f, p) EXCEPT !.next_page_id = p + 1,
                                               !.pages[f].pin_count = 1]
             s3 == InstallEntry(RecordAndPin(s2, f), p, f)
         IN  [st |-> s3, res |-> "ok", src |-> t.src]

\* FetchPage lines 95-98: what is done with a dirty victim
FetchPageVictim(st, f) ==
    IF st.pages[f].is_dirty
    THEN [WritePage(st, f) EXCEPT !.pages[f].is_dirty = FALSE]
    ELSE st

\* FetchPage lines 77-80: the page is in the page table
FetchPageHit(st, p) ==
    [st EXCEPT !.pages[st.page_table[p]].pin_count = @ + 1]

\* BufferPoolManager::FetchPage
FetchPageOp(st, p, u) ==
    IF InTable(st, p)
    THEN [st |-> FetchPageHit(st, p), res |-> "ok", src |-> "hit"]
    ELSE LET t == TakeFrame(st, u)
             f == t.frame
             s1 == InstallEntry(RecordAndPin(t.st, f), p, f)
             s2 == ReadPage(FetchPageVictim(s1, f), f, p)
             s3 == SetPageId([s2 EXCEPT !.pages[f].pin_count = 1], f, p)
         IN  IF ~t.ok
             THEN [st |-> st, res |-> "null", src |-> "none"]
             ELSE [st |-> s3, res |-> "ok", src |-> t.src]

\* UnpinPage lines 117-119: the dirty flag
UnpinDirty(old, is_dirty) == IF is_dirty THEN TRUE ELSE old

\* BufferPoolManager::UnpinPage
UnpinPageOp(st, p, is_dirty) ==
    IF ~InTable(st, p)
    THEN [st |-> st, res |-> "false", src |-> "none"]
    ELSE LET f == st.page_table[p]
             s1 == [st EXCEPT !.pages[f].pin_count = @ - 1]
             se == ReplacerSetEvictable(s1.replacer, f, TRUE)
             s2 == IF s1.pages[f].pin_count = 0 THEN [s1 EXCEPT !.replacer = se.rep] ELSE s1
             s3 == [s2 EXCEPT !.pages[f].is_dirty = UnpinDirty(@, is_dirty)]
         IN  IF st.pages[f].pin_count <= 0
             THEN [st |-> st, res |-> "false", src |-> "none"]
             ELSE IF s1.pages[f].pin_count = 0 /\ se.threw
             THEN [st |-> s1, res |-> "throw", src |-> "hit"]
             ELSE [st |-> s3, res |-> "true", src |-> "hit"]

\* BufferPoolManager::FlushPage
FlushPageOp(st, p) ==
    IF ~InTable(st, p)
    THEN [st |-> st, res |-> "false", src |-> "none"]
    ELSE LET f == st.page_table[p]
             pid == p
             s1 == [st EXCEPT !.disk[pid] = st.pages[f].data,
                              !.log = Append(@, Event("WritePage", f, pid, st.pages[f].data)),
                              !.pages[f].is_dirty = FALSE]
         IN  [st |-> s1, res |-> "true", src |-> "hit"]

\* the page id FlushAllPages passes to FlushPage for frame f
FlushAllArg(st, f) == st.pages[f].page_id

\* BufferPoolManager::FlushAllPages: the loop from frame f on
RECURSIVE FlushAllFrom(_, _)
FlushAllFrom(st, f) ==
    IF f >= PoolSize THEN st
    ELSE FlushAllFrom(FlushPageOp(st, FlushAllArg(st, f)).st, f + 1)

\* DeletePageReset without the frame's return to the free list
DeletePageResetKeepsFrame(st, p, f, g) ==
    LET s1 == EraseEntry(st, p)
        rm == ReplacerRemove(s1.replacer, g)
        s2 == [s1 EXCEPT !.replacer = rm.rep]
        s3 == ResetMemory([s2 EXCEPT !.pages[f].page_id = INVALID_PAGE_ID,
                                     !.pages[f].is_dirty = FALSE,
                                     !.pages[f].pin_count = 0], f)
    IN  IF rm.threw
        THEN [st |-> s1, res |-> "throw", src |-> "hit"]
        ELSE [st |-> s3, res |-> "true", src |-> "hit"]

\* DeletePage lines 149-155, with g the value read from the erased iterator
DeletePageReset(st, p, f, g) ==
    LET s1 == EraseEntry(st, p)
        rm == ReplacerRemove(s1.replacer, g)
        s2 == [s1 EXCEPT !.replacer = rm.rep, !.free_list = Append(@, g)]
        s3 == ResetMemory([s2 EXCEPT !.pages[f].page_id = INVALID_PAGE_ID,
                                     !.pages[f].is_dirty = FALSE,
                                     !.pages[f].pin_count = 0], f)
    IN  IF rm.threw
        THEN [st |-> s1, res |-> "throw", src |-> "hit"]
        ELSE [st |-> s3, res |-> "true", src |-> "hit"]

\* BufferPoolManager::DeletePage.  it->second is read after
\* page_table_.erase(it) freed the node it points to: g is the value read.
DeletePageOp(st, p, g) ==
    IF ~InTable(st, p)
    THEN [st |-> st, res |-> "true", src |-> "none"]
    ELSE IF st.pages[st.page_table[p]].pin_count > 0
    THEN [st |-> st, res |-> "false", src |-> "none"]
    ELSE DeletePageReset(st, p, st.page_table[p], g)

(***************************************************************************)
(* The earlier revision of the manager, src/buffer/buffer_pool_manager.cpp *)
(* as the repository also holds it: NewPage, UnpinPage and FlushPage are   *)
(* the ones above; FetchPage, FlushAllPages and DeletePage differ.         *)
(***************************************************************************)
\* BufferPoolManager::FetchPage of the earlier revision
FetchPageEarlierOp(st, p, u) ==
    IF ReplacerSize(st.replacer) = 0 /\ st.free_list = <<>>
    THEN [st |-> st, res |-> "null", src |-> "none"]
    ELSE IF InTable(st, p)
    THEN [st |-> [st EXCEPT !.pages[st.page_table[p]].pin_count = @ + 1],
          res |-> "ok", src |-> "hit"]
    ELSE LET t == TakeFrame(st, u)
             f == t.frame
             s1 == IF t.st.pages[f].is_dirty
                   THEN [WritePage(t.st, f) EXCEPT !.pages[f].is_dirty = FALSE]
                   ELSE t.st
             s2 == [ReadPage(s1, f, p) EXCEPT !.pages[f].pin_count = 1]
             s3 == RecordAndPin(SetPageId(s2, f, p), f)
         IN  [st |-> InstallEntry(s3, p, f), res |-> "ok", src |-> t.src]

\* BufferPoolManager::FlushAllPages of the earlier revision: the loop from
\* frame_id on, which passes frame_id itself to FlushPage
RECURSIVE FlushAllEarlierFrom(_, _)
FlushAllEarlierFrom(st, frame_id) ==
    IF frame_id >= PoolSize THEN st
    ELSE FlushAllEarlierFrom(FlushPageOp(st, frame_id).st, frame_id + 1)

\* BufferPoolManager::DeletePage of the earlier revision
DeletePageEarlierOp(st, p) == [st |-> st, res |-> "false", src |-> "none"]

(***************************************************************************)
(* The buffer pool manager as a state machine: one action per public       *)
(* method, called by a single client with page ids that NewPage handed     *)
(* out.  The action sets the manager's fields and last; content is set by  *)
(* the specification's next-state relation.                                *)
(***************************************************************************)
NoCall == [op |-> "none", res |-> "none", src |-> "none", writes |-> 0]

\* the manager's fields other than the replacer after construction
PoolInit ==
    /\ pages = [f \in Frames |-> ZeroPage]
    /\ page_table = [p \in PageIds |-> NoFrame]
    /\ free_list = [i \in 1 .. PoolSize |-> i - 1]
    /\ next_page_id = 0
    /\ disk = [p \in DiskIds |-> 0]
    /\ content = [p \in PageIds |-> 0]

BpmInit ==
    /\ PoolInit
    /\ replacer = ReplacerInit
    /\ last = NoCall

\* the number of WritePage calls in a log
Writes(log) == Cardinality({i \in 1 .. Len(log) : log[i].ev = "WritePage"})

\* the fields after a call, and the record of the call
Commit(r, op) ==
    /\ pages' = r.st.pages
    /\ page_table' = r.st.page_table
    /\ free_list' = r.st.free_list
    /\ next_page_id' = r.st.next_page_id
    /\ replacer' = r.st.replacer
    /\ disk' = r.st.disk
    /\ last' = [op |-> op, res |-> r.res, src |-> r.src, writes |-> Writes(r.st.log)]

\* the values the uninitialised victim_frame of NewPage can hold when it is
\* read, which is only when Evict found nothing
Uninitialised ==
    IF free_list = <<>> /\ ~ReplacerEvict(replacer).ok /\ ReplacerSize(replacer) # 0
    THEN Frames ELSE {NoFrame}

\* the values DeletePage(p) can read from the erased iterator, which it reads
\* only when p is in the page table and unpinned
Dangling(p) ==
    IF InTable(Fields, p) /\ pages[page_table[p]].pin_count <= 0
    THEN Frames \cup {OutOfRangeFrame} ELSE {NoFrame}

\* the page ids NewPage has handed out
Allocated == 0 .. (next_page_id - 1)

NewPage ==
    /\ next_page_id < MaxPages
    /\ replacer.current_timestamp < MaxTime
    /\ \E u \in Uninitialised : Commit(NewPageOp(Fields, u), "NewPage")

FetchPage(p) ==
    /\ p \in Allocated
    /\ IF InTable(Fields, p)
       THEN pages[page_table[p]].pin_count < MaxPin
       ELSE replacer.current_timestamp < MaxTime
    /\ Commit(FetchPageOp(Fields, p, NoFrame), "FetchPage")

\* the client holds a pin on p: p is in the page table and is pinned
Holds(p) == InTable(Fields, p) /\ pages[page_table[p]].pin_count > 0

\* the client unpins p; with is_dirty it has written bytes v into the frame it
\* was given for p before it unpins
UnpinPage(p, is_dirty, v) ==
    /\ p \in Allocated
    /\ is_dirty <=> v # 0
    /\ LET st == IF is_dirty /\ Holds(p)
                 THEN [Fields EXCEPT !.pages[page_table[p]].data = v]
                 ELSE Fields
       IN  Commit(UnpinPageOp(st, p, is_dirty), "UnpinPage")

FlushPage(p) ==
    /\ p \in Allocated
    /\ Commit(FlushPageOp(Fields, p), "FlushPage")

FlushAllPages ==
    Commit([st |-> FlushAllFrom(Fields, 0), res |-> "void", src |-> "none"],
           "FlushAllPages")

DeletePage(p) ==
    /\ p \in Allocated
    /\ \E g \in Dangling(p) : Commit(DeletePageOp(Fields, p, g), "DeletePage")

FetchPageEarlier(p) ==
    /\ p \in Allocated
    /\ IF InTable(Fields, p)
       THEN pages[page_table[p]].pin_count < MaxPin
       ELSE replacer.current_timestamp < MaxTime
    /\ Commit(FetchPageEarlierOp(Fields, p, NoFrame), "FetchPage")

FlushAllPagesEarlier ==
    Commit([st |-> FlushAllEarlierFrom(Fields, 0), res |-> "void", src |-> "none"],
           "FlushAllPages")

DeletePageEarlier(p) ==
    /\ p \in Allocated
    /\ Commit(DeletePageEarlierOp(Fields, p), "DeletePage")

NoTree ==
    /\ tree = [pages |-> <<>>, root |-> INVALID_PAGE_ID, next |-> 1]
    /\ stored = <<>>
    /\ tlast = [op |-> "none"]
    /\ threads = <<>>

\* no Trie: the variable is not used
NoTrie == trie = <<>>

NoGuards ==
    /\ guards = <<>>
    /\ latches = [f \in Frames |-> [readers |-> 0, writer |-> FALSE]]
    /\ glast = <<>>

Init == BpmInit /\ NoTree /\ NoGuards /\ NoTrie

Next ==
    /\ \/ NewPage /\ UNCHANGED content
       \/ \E p \in PageIds : FetchPage(p) /\ UNCHANGED content
       \/ \E p \in PageIds, d \in BOOLEAN, v \in Data :
             UnpinPage(p, d, v) /\ UNCHANGED content
       \/ \E p \in PageIds : FlushPage(p) /\ UNCHANGED content
       \/ FlushAllPages /\ UNCHANGED content
       \/ \E p \in PageIds : DeletePage(p) /\ UNCHANGED content
    /\ UNCHANGED treeVars
    /\ UNCHANGED guardVars
    /\ UNCHANGED trie

Spec == Init /\ [][Next]_vars

(***************************************************************************)
(* The earlier revision of the manager under the same client.              *)
(***************************************************************************)
NextEarlier ==
    /\ \/ NewPage
       \/ \E p \in PageIds : FetchPageEarlier(p)
       \/ \E p \in PageIds, d \in BOOLEAN, v \in Data : UnpinPage(p, d, v)
       \/ \E p \in PageIds : FlushPage(p)
       \/ FlushAllPagesEarlier
       \/ \E p \in PageIds : DeletePageEarlier(p)
    /\ UNCHANGED content
    /\ UNCHANGED treeVars
    /\ UNCHANGED guardVars
    /\ UNCHANGED trie

SpecEarlier == Init /\ [][NextEarlier]_vars

(***************************************************************************)
(* The same manager under NewPage, FetchPage and UnpinPage calls alone,    *)
(* with content following the bytes the client leaves in each page.        *)
(***************************************************************************)
NextBytes ==
    /\ \/ NewPage /\ UNCHANGED content
       \/ \E p \in PageIds : FetchPage(p) /\ UNCHANGED content
       \/ \E p \in PageIds, d \in BOOLEAN, v \in Data :
             /\ UnpinPage(p, d, v)
             /\ content' = IF d /\ last'.res = "true"
                           THEN [content EXCEPT ![p] = v]
                           ELSE content
    /\ UNCHANGED treeVars
    /\ UNCHANGED guardVars
    /\ UNCHANGED trie

SpecBytes == Init /\ [][NextBytes]_vars

(***************************************************************************)
(* The LRU-K replacer on its own: a single client calls RecordAccess,      *)
(* SetEvictable, Remove, Evict and Size on a replacer of PoolSize frames    *)
(* constructed with some k.  last records the call, its result and, in     *)
(* marks, what the calls so far make of each frame: "untracked" (never      *)
(* accessed, or evicted or removed since its last first access), "pinned"  *)
(* (tracked, evictable flag false) or "evictable".                         *)
(***************************************************************************)
FrameArgs == Frames \cup {OutOfRangeFrame}

NoReplacerCall ==
    [op |-> "none", res |-> "none", frame |-> NoFrame, size |-> 0,
     marks |-> [f \in Frames |-> "untracked"]]

InitReplacer ==
    /\ PoolInit
    /\ NoTree
    /\ NoGuards
    /\ NoTrie
    /\ replacer \in {ReplacerNew(k) : k \in 1 .. MaxK}
    /\ last = NoReplacerCall

RecordAccess(f) ==
    /\ replacer.current_timestamp < MaxAccesses
    /\ LET r == ReplacerRecordAccessOp(replacer, f)
       IN  /\ replacer' = r.rep
           /\ last' = [op |-> "RecordAccess", res |-> IF r.threw THEN "throw" ELSE "void",
                       frame |-> f, size |-> 0,
                       marks |-> IF ~r.threw /\ last.marks[f] = "untracked"
                                 THEN [last.marks EXCEPT ![f] = "pinned"]
                                 ELSE last.marks]

SetEvictable(f, set_evictable) ==
    LET r == ReplacerSetEvictable(replacer, f, set_evictable)
    IN  /\ replacer' = r.rep
        /\ last' = [op |-> "SetEvictable", res |-> IF r.threw THEN "throw" ELSE "void",
                    frame |-> f, size |-> 0,
                    marks |-> IF ~r.threw
                              THEN [last.marks EXCEPT
                                       ![f] = IF set_evictable THEN "evictable" ELSE "pinned"]
                              ELSE last.marks]

RemoveFrame(f) ==
    LET r == ReplacerRemove(replacer, f)
    IN  /\ replacer' = r.rep
        /\ last' = [op |-> "Remove", res |-> IF r.threw THEN "throw" ELSE "void",
                    frame |-> f, size |-> 0,
                    marks |-> IF ~r.threw THEN [last.marks EXCEPT ![f] = "untracked"]
                              ELSE last.marks]

Evict ==
    LET e == ReplacerEvict(replacer)
    IN  /\ replacer' = e.rep
        /\ last' = [op |-> "Evict", res |-> IF e.ok THEN "true" ELSE "false",
                    frame |-> e.frame, size |-> 0,
                    marks |-> IF e.ok THEN [last.marks EXCEPT ![e.frame] = "untracked"]
                              ELSE last.marks]

Size ==
    /\ replacer' = replacer
    /\ last' = [op |-> "Size", res |-> "size", frame |-> NoFrame,
                size |-> ReplacerSize(replacer), marks |-> last.marks]

NextReplacer ==
    /\ \/ \E f \in FrameArgs : RecordAccess(f)
       \/ \E f \in FrameArgs, b \in BOOLEAN : SetEvictable(f, b)
       \/ \E f \in FrameArgs : RemoveFrame(f)
       \/ Evict
       \/ Size
    /\ UNCHANGED <<pages, page_table, free_list, next_page_id, disk, content>>
    /\ UNCHANGED treeVars
    /\ UNCHANGED guardVars
    /\ UNCHANGED trie

SpecReplacer == InitReplacer /\ [][NextReplacer]_vars

(***************************************************************************)
(* B+ tree.  The tree reaches its pages through the buffer pool manager;   *)
(* the model is of a pool large enough that no page is evicted, where      *)
(* NewPage hands out a zeroed frame under the next page id and FetchPage   *)
(* of a page id returns that frame.  A tree value is a record              *)
(*   pages : page id -> the page held under that id                        *)
(*   root  : root_page_id_ of the header page                              *)
(*   next  : the page id the next NewPage hands out                        *)
(*   leaf_max_size, internal_max_size : the constructor's arguments        *)
(* Page 0 is the header page; the tree's pages are 1, 2, ...               *)
(***************************************************************************)
Keys == 1 .. MaxKey
Values == 1 .. MaxValue
Slots == 0 .. (MaxNodeSize - 1)

ZeroSlot == [key |-> 0, value |-> 0]

\* a page of zeroed memory, as NewPage hands it out
ZeroTreePage ==
    [page_type |-> "INVALID", size |-> 0, max_size |-> 0, parent |-> 0, page |-> 0,
     is_root |-> FALSE, next |-> 0, arr |-> [i \in Slots |-> ZeroSlot]]

\* bpm_->NewPageGuarded(&id): [id, t]
TreeNewPage(t) ==
    [id |-> t.next,
     t |-> [t EXCEPT !.pages = @ @@ (t.next :> ZeroTreePage), !.next = @ + 1]]

\* BPlusTreeLeafPage::Init, followed by SetMaxSize and SetPage
LeafInit(pg, id, max_size) ==
    [pg EXCEPT !.page_type = "LEAF", !.size = 0, !.max_size = max_size,
               !.is_root = FALSE, !.next = INVALID_PAGE_ID, !.page = id]

\* BPlusTreeInternalPage::Init, followed by SetMaxSize and SetPage
InternalInit(pg, id, max_size) ==
    [pg EXCEPT !.page_type = "INTERNAL", !.size = 0, !.max_size = max_size,
               !.is_root = FALSE, !.page = id]

\* the binary search of FindPosition and FindInsertPosition
RECURSIVE SearchPosition(_, _, _, _)
SearchPosition(pg, key, low, high) ==
    IF low > high THEN low
    ELSE LET mid == (low + high) \div 2
         IN  IF pg.arr[mid].key = key THEN mid
             ELSE IF pg.arr[mid].key < key
             THEN SearchPosition(pg, key, mid + 1, high)
             ELSE SearchPosition(pg, key, low, mid - 1)

\* BPlusTreeLeafPage::FindPosition
FindPosition(pg, key) == SearchPosition(pg, key, 0, pg.size - 1)

\* BPlusTreeInternalPage::FindInsertPosition
FindInsertPosition(pg, key) == SearchPosition(pg, key, 1, pg.size - 1)

\* the loop of FindChildIndex
RECURSIVE SearchChild(_, _, _, _)
SearchChild(pg, key, low, high) ==
    IF ~(low < high) THEN low
    ELSE LET mid == (low + high) \div 2
         IN  IF pg.arr[mid].key = key THEN mid
             ELSE IF pg.arr[mid].key < key
             THEN SearchChild(pg, key, mid + 1, high)
             ELSE SearchChild(pg, key, low, mid - 1)

\* BPlusTreeInternalPage::FindChildIndex
FindChildIndex(pg, key) ==
    IF key < pg.arr[1].key THEN 0 ELSE SearchChild(pg, key, 1, pg.size - 1)

\* BPlusTreeLeafPage::Insert: ShiftAt(pos); SetAt(pos, key, value);
\* IncreaseSize(1)
LeafInsert(pg, pos, key, value) ==
    [pg EXCEPT !.arr = [i \in Slots |->
                            IF i = pos THEN [key |-> key, value |-> value]
                            ELSE IF i > pos /\ i <= pg.size THEN pg.arr[i - 1]
                            ELSE pg.arr[i]],
               !.size = @ + 1]

\* BPlusTreeInternalPage::InsertAt
InsertAt(pg, position, key, child_id) ==
    IF position = 0
    THEN [pg EXCEPT !.arr[0].value = child_id, !.size = @ + 1]
    ELSE [pg EXCEPT !.arr = [i \in Slots |->
                                 IF i = position THEN [key |-> key, value |-> child_id]
                                 ELSE IF i > position /\ i <= pg.size THEN pg.arr[i - 1]
                                 ELSE pg.arr[i]],
                    !.size = @ + 1]

\* BPlusTree::GetRootPageId
GetRootPageId(t) == t.root

\* BPlusTree::IsEmpty
IsEmpty(t) == t.root = INVALID_PAGE_ID

\* BPlusTree::FindLeafNode: the loop from page id cur on
RECURSIVE FindLeafFrom(_, _, _)
FindLeafFrom(t, key, cur) ==
    IF cur = INVALID_PAGE_ID THEN INVALID_PAGE_ID
    ELSE IF t.pages[cur].page_type = "LEAF" THEN cur
    ELSE FindLeafFrom(t, key, t.pages[cur].arr[FindChildIndex(t.pages[cur], key)].value)

FindLeafNode(t, key) == FindLeafFrom(t, key, GetRootPageId(t))

\* BPlusTree::InsertInLeaf: [ok, pg]
InsertInLeaf(pg, key, value) ==
    IF pg.max_size - 1 = pg.size
    THEN [ok |-> FALSE, pg |-> pg]
    ELSE [ok |-> TRUE, pg |-> LeafInsert(pg, FindPosition(pg, key), key, value)]

\* std::vector::insert(begin() + pos, e)
TmpInsert(tmp, pos, e) == SubSeq(tmp, 1, pos) \o <<e>> \o SubSeq(tmp, pos + 1, Len(tmp))

\* the entries 0 .. size-1 of a page, as the temporary vector of a split
TmpOf(pg) == [i \in 1 .. pg.size |-> pg.arr[i - 1]]

\* SplitLeft without the IncreaseSize(1) that follows the second loop
SplitLeftNoIncrease(pg, tmp, middle) ==
    [pg EXCEPT !.arr = [i \in Slots |-> IF i < middle THEN tmp[i + 1] ELSE pg.arr[i]],
               !.size = pg.size - (Len(tmp) - middle)]

\* the old page after the two loops of a split: slots 0 .. middle-1 rewritten
\* from tmp, the size brought to middle
SplitLeft(pg, tmp, middle) ==
    [pg EXCEPT !.arr = [i \in Slots |-> IF i < middle THEN tmp[i + 1] ELSE pg.arr[i]],
               !.size = pg.size - (Len(tmp) - middle) + 1]

\* the new page after the second loop of a split: tmp[middle ..] from slot 0
SplitRight(pg, tmp, middle) ==
    [pg EXCEPT !.arr = [j \in Slots |->
                            IF j < Len(tmp) - middle THEN tmp[middle + j + 1] ELSE pg.arr[j]],
               !.size = pg.size + (Len(tmp) - middle)]

RECURSIVE InsertInParent(_, _, _, _)
RECURSIVE SplitInternalNode(_, _, _, _)

\* BPlusTree::InsertInParent lines 87-109: old_node is the root
NewRoot(t, old, middle_key, new) ==
    LET n == TreeNewPage(t)
        r0 == [InternalInit(n.t.pages[n.id], n.id, t.internal_max_size)
                  EXCEPT !.is_root = TRUE]
        r1 == [r0 EXCEPT !.arr[1] = [key |-> middle_key, value |-> t.pages[new].page],
                         !.arr[0].value = t.pages[old].page,
                         !.size = 2]
    IN  [n.t EXCEPT !.pages[n.id] = r1,
                    !.pages[new].parent = n.id,
                    !.pages[old].parent = n.id,
                    !.root = n.id]

\* BPlusTree::InsertInParent
InsertInParent(t, old, middle_key, new) ==
    IF t.pages[old].is_root
    THEN NewRoot(t, old, middle_key, new)
    ELSE LET pid == t.pages[old].parent
             parent == t.pages[pid]
         IN  IF parent.size < parent.max_size
             THEN [t EXCEPT !.pages[pid] =
                               InsertAt(parent, FindInsertPosition(parent, middle_key),
                                        middle_key, t.pages[new].page),
                            !.pages[new].parent = pid]
             ELSE SplitInternalNode(t, pid, middle_key, t.pages[new].page)

\* BPlusTree::SplitInternalNode up to the call of InsertInParent: the tree,
\* the middle key and the id of the new internal page
SplitInternal(t, page, key, child_id) ==
    LET pg == t.pages[page]
        tmp == TmpInsert(TmpOf(pg), FindChildIndex(pg, key) + 1,
                         [key |-> key, value |-> child_id])
        n == TreeNewPage(t)
        middle == (pg.max_size + 1) \div 2
        middle_key == tmp[middle + 1].key
        t1 == [n.t EXCEPT !.pages[page] = SplitLeft(pg, tmp, middle),
                          !.pages[n.id] = SplitRight(InternalInit(n.t.pages[n.id], n.id,
                                                                  t.internal_max_size),
                                                     tmp, middle)]
        t2 == [t1 EXCEPT !.pages[child_id].parent = n.id]
    IN  [t |-> t2, middle_key |-> middle_key, new |-> n.id]

\* BPlusTree::SplitInternalNode
SplitInternalNode(t, page, key, child_id) ==
    LET s == SplitInternal(t, page, key, child_id)
    IN  InsertInParent(s.t, page, s.middle_key, s.new)

\* BPlusTree::SplitLeafNode up to the call of InsertInParent: the tree, the
\* middle key and the id of the new leaf
SplitLeaf(t, page, key, value) ==
    LET pg == t.pages[page]
        tmp == TmpInsert(TmpOf(pg), FindPosition(pg, key), [key |-> key, value |-> value])
        n == TreeNewPage(t)
        middle == pg.max_size \div 2
        middle_key == tmp[middle + 1].key
        right == [SplitRight(LeafInit(n.t.pages[n.id], n.id, t.leaf_max_size), tmp, middle)
                     EXCEPT !.next = pg.next]
        left == [SplitLeft(pg, tmp, middle) EXCEPT !.next = n.id]
        t1 == [n.t EXCEPT !.pages[page] = left, !.pages[n.id] = right]
    IN  [t |-> t1, middle_key |-> middle_key, new |-> n.id]

\* BPlusTree::SplitLeafNode
SplitLeafNode(t, page, key, value) ==
    LET s == SplitLeaf(t, page, key, value)
    IN  InsertInParent(s.t, page, s.middle_key, s.new)

\* BPlusTree::Insert lines 232-245: the tree is empty
StartNewTree(t, key, value) ==
    LET n == TreeNewPage(t)
        r0 == [LeafInit(n.t.pages[n.id], n.id, t.leaf_max_size) EXCEPT !.is_root = TRUE]
    IN  [n.t EXCEPT !.root = n.id,
                    !.pages[n.id] = InsertInLeaf(r0, key, value).pg]

\* BPlusTree::Insert once FindLeafNode has returned leaf: the tree
InsertAtLeaf(t, leaf, key, value) ==
    LET ins == InsertInLeaf(t.pages[leaf], key, value)
    IN  IF ins.ok
        THEN [t EXCEPT !.pages[leaf] = ins.pg]
        ELSE SplitLeafNode(t, leaf, key, value)

\* BPlusTree::Insert: [ok, t]
TreeInsert(t, key, value) ==
    IF IsEmpty(t)
    THEN [ok |-> TRUE, t |-> StartNewTree(t, key, value)]
    ELSE [ok |-> TRUE, t |-> InsertAtLeaf(t, FindLeafNode(t, key), key, value)]

\* BPlusTree::GetValue: [ok, result], result the vector it was given
TreeGetValue(t, key, result) == [ok |-> FALSE, result |-> result]

\* BPlusTree::Remove
TreeRemove(t, key) == t

(***************************************************************************)
(* The B+ tree as a state machine: a single client calls Insert, GetValue  *)
(* and Remove.                                                             *)
(***************************************************************************)
NoTreeCall == [op |-> "none", key |-> 0, value |-> 0, ok |-> FALSE, result |-> <<>>]

\* BPlusTree::BPlusTree: the header page's root_page_id_ is INVALID_PAGE_ID
TreeNew(leaf_max_size, internal_max_size) ==
    [pages |-> <<>>, root |-> INVALID_PAGE_ID, next |-> 1,
     leaf_max_size |-> leaf_max_size, internal_max_size |-> internal_max_size]

EmptyTree == TreeNew(LeafMaxSize, InternalMaxSize)

TreeInit ==
    /\ tree = EmptyTree
    /\ stored = [k \in Keys |-> 0]
    /\ tlast = NoTreeCall
    /\ threads = <<>>

\* the number of Insert calls so far: every call adds one entry to the leaves,
\* and a split moves entries without dropping any
RECURSIVE SumSizes(_, _)
SumSizes(t, ids) ==
    IF ids = {} THEN 0
    ELSE LET id == CHOOSE x \in ids : TRUE
         IN  (IF t.pages[id].page_type = "LEAF" THEN t.pages[id].size ELSE 0)
             + SumSizes(t, ids \ {id})

Inserted == SumSizes(tree, DOMAIN tree.pages)

Insert(key, value) ==
    /\ Inserted < MaxInserts
    /\ LET r == TreeInsert(tree, key, value)
       IN  /\ tree' = r.t
           /\ stored' = IF r.ok THEN [stored EXCEPT ![key] = value] ELSE stored
           /\ tlast' = [op |-> "Insert", key |-> key, value |-> value, ok |-> r.ok,
                        result |-> <<>>]

GetValue(key) ==
    LET r == TreeGetValue(tree, key, <<>>)
    IN  /\ tlast' = [op |-> "GetValue", key |-> key, value |-> 0, ok |-> r.ok,
                     result |-> r.result]
        /\ UNCHANGED <<tree, stored>>

Remove(key) ==
    /\ tree' = TreeRemove(tree, key)
    /\ stored' = [stored EXCEPT ![key] = 0]
    /\ tlast' = [op |-> "Remove", key |-> key, value |-> 0, ok |-> TRUE, result |-> <<>>]

(***************************************************************************)
(* The specification of the B+ tree: the buffer pool manager's fields are  *)
(* those of a manager nothing has called yet.                              *)
(***************************************************************************)
NextTree ==
    /\ \/ \E key \in Keys, value \in Values : Insert(key, value)
       \/ \E key \in Keys : GetValue(key)
       \/ \E key \in Keys : Remove(key)
    /\ UNCHANGED threads
    /\ UNCHANGED bpmVars
    /\ UNCHANGED guardVars
    /\ UNCHANGED trie

InitTree == BpmInit /\ TreeInit /\ NoGuards /\ NoTrie

SpecTree == InitTree /\ [][NextTree]_vars

(***************************************************************************)
(* Properties of the buffer pool manager.                                  *)
(***************************************************************************)
\* the step is a NewPage or FetchPage call that took a frame for a new page
Admits == last'.op \in {"NewPage", "FetchPage"} /\ last'.src \in {"free", "evict"}

\* C1: the frame NewPage or FetchPage takes from the replacer as its victim
\* has pin_count 0 at the moment it is taken: no pinned frame is evicted.
C1_VictimUnpinned ==
    [][(last'.op \in {"NewPage", "FetchPage"} /\ last'.src = "evict")
        => pages[ReplacerEvict(replacer).frame].pin_count = 0]_vars

\* C2: the frame FetchPage(p) returns has page_id p and holds the current
\* contents of p: the bytes last left in p by a dirty unpin, else the disk's.
C2_FetchReturnsPage ==
    [][\A p \in PageIds :
          (FetchPage(p) /\ last'.res = "ok")
          => /\ pages'[page_table'[p]].page_id = p
             /\ pages'[page_table'[p]].data = content[p]]_vars

\* C3: every page-table entry (pid, f) has frames[f].page_id = pid, and no
\* frame is the value of two entries.
C3_PageTableConsistent ==
    /\ \A p \in PageIds :
          page_table[p] # NoFrame => pages[page_table[p]].page_id = p
    /\ \A p, q \in PageIds :
          (p # q /\ page_table[p] # NoFrame) => page_table[p] # page_table[q]

\* C4: for every frame that holds a page, pin_count = 0 if and only if the
\* replacer has the frame marked evictable.
C4_UnpinnedIffEvictable ==
    \A f \in Frames :
        pages[f].page_id # INVALID_PAGE_ID
        => (pages[f].pin_count = 0
            <=> (replacer.node_store[f].tracked /\ replacer.node_store[f].is_evictable))

\* C7: NewPage, and FetchPage of a page that is not in the page table, return
\* no frame if and only if the free list is empty and every frame is pinned.
C7_NullIffAllPinned ==
    [][(last'.op \in {"NewPage", "FetchPage"} /\ last'.src # "hit")
        => (last'.res = "null"
            <=> (free_list = <<>> /\ \A f \in Frames : pages[f].pin_count > 0))]_vars

\* the manager's fields are what they were before the step
SameFields ==
    UNCHANGED <<pages, page_table, free_list, next_page_id, replacer, disk>>

\* C8: UnpinPage(p, d) returns false and changes nothing when no frame holds p
\* or p's pin count is 0; otherwise it decrements the pin count of the frame
\* holding p by one, touches no other pin count, and leaves the dirty flag
\* equal to (previous flag OR d).
C8_UnpinPage ==
    [][\A p \in PageIds, d \in BOOLEAN, v \in Data :
          UnpinPage(p, d, v)
          => IF \A f \in Frames : ~(pages[f].page_id = p /\ pages[f].pin_count > 0)
             THEN last'.res = "false" /\ SameFields
             ELSE /\ last'.res = "true"
                  /\ \A f \in Frames :
                        IF pages[f].page_id = p
                        THEN /\ pages'[f].pin_count = pages[f].pin_count - 1
                             /\ pages'[f].is_dirty = (pages[f].is_dirty \/ d)
                        ELSE pages'[f].pin_count = pages[f].pin_count]_vars

\* the step, a call of the manager, ends frame f's holding of dirty bytes:
\* the frame was dirty and the call overwrote or reset its bytes or gave it
\* another page id
Discards(f) ==
    /\ pages[f].is_dirty
    /\ last'.op # "UnpinPage"
    /\ \/ pages'[f].data # pages[f].data
       \/ pages'[f].page_id # pages[f].page_id

\* WritePage was called with frame f's old bytes for its old page id
WroteBack(f) == disk'[pages[f].page_id] = pages[f].data

\* C9 as stated: a dirty frame that NewPage or FetchPage re-uses is written
\* to disk under its old page id first, and no call ever discards a dirty
\* page's bytes without that write.
C9_NoDirtyDiscard ==
    [][\A f \in Frames : Discards(f) => WroteBack(f)]_vars

\* C9, amended: when NewPage or FetchPage re-uses a dirty frame, the frame's
\* old bytes are on disk under its old page id before the bytes are
\* overwritten or reset and before the page id changes.
C9_DirtyVictimWrittenBack ==
    [][\A f \in Frames : (Admits /\ Discards(f)) => WroteBack(f)]_vars

\* NewPage or FetchPage has just re-used a dirty frame and written it back
C9_Witness ==
    /\ last.op \in {"NewPage", "FetchPage"}
    /\ last.src \in {"free", "evict"}
    /\ last.writes = 1
    /\ \E p \in PageIds : disk[p] # 0

\* C10: DeletePage(p) returns true and changes nothing if p is not resident,
\* returns false and changes nothing if p is pinned, and otherwise removes p
\* from the page table, removes its frame from the replacer, appends that
\* frame to the free list, resets the frame and returns true.
C10_DeletePage ==
    [][\A p \in PageIds :
          DeletePage(p)
          => IF ~InTable(Fields, p)
             THEN last'.res = "true" /\ SameFields
             ELSE IF pages[page_table[p]].pin_count > 0
             THEN last'.res = "false" /\ SameFields
             ELSE /\ last'.res = "true"
                  /\ page_table' = [page_table EXCEPT ![p] = NoFrame]
                  /\ replacer' = ReplacerRemove(replacer, page_table[p]).rep
                  /\ free_list' = Append(free_list, page_table[p])
                  /\ pages' = [pages EXCEPT ![page_table[p]] = ZeroPage]]_vars


(***************************************************************************)
(* Properties of the B+ tree.                                              *)
(***************************************************************************)
\* C5: after any sequence of Insert calls, GetValue(k) returns true and
\* yields exactly the value most recently inserted for k when k was inserted,
\* and returns not-found, with nothing yielded, for a key never inserted or
\* one Remove(k) was called for afterwards.
C5_GetValue ==
    tlast.op = "GetValue" =>
        IF stored[tlast.key] # 0
        THEN tlast.ok /\ tlast.result = <<stored[tlast.key]>>
        ELSE ~tlast.ok /\ tlast.result = <<>>

\* the leaves of the tree hold key
ContainsKey(key) ==
    \E id \in DOMAIN tree.pages :
        /\ tree.pages[id].page_type = "LEAF"
        /\ \E i \in Slots : i < tree.pages[id].size /\ tree.pages[id].arr[i].key = key

\* C6: an Insert(k, v) on a tree that already contains k returns false and
\* leaves every page of the tree unchanged; an Insert returns true only when
\* k was absent.
C6_InsertDuplicate ==
    [][\A key \in Keys, value \in Values :
          Insert(key, value) =>
              IF stored[key] # 0 /\ ContainsKey(key)
              THEN ~tlast'.ok /\ tree' = tree
              ELSE tlast'.ok]_vars

(***************************************************************************)
(* Properties of FlushPage, FlushAllPages and DeletePage.                  *)
(***************************************************************************)
\* the frames that hold page p
HeldBy(p) == {f \in Frames : pages[f].page_id = p}

\* the fields of a record of the manager's fields, without the log
NoLog(st) == [st EXCEPT !.log = <<>>]

\* C11: FlushPage(p) on a page some frame holds writes that frame's bytes to
\* disk page p, clears its dirty flag and returns true, and changes no pin
\* count, page-table entry, free-list element or replacer field; on a page no
\* frame holds it returns false and writes nothing; a second FlushPage(p)
\* right after the first changes nothing more.
C11_FlushPage ==
    [][\A p \in PageIds :
          FlushPage(p)
          => /\ IF HeldBy(p) # {}
                THEN \E f \in HeldBy(p) :
                        /\ last'.res = "true"
                        /\ disk' = [disk EXCEPT ![p] = pages[f].data]
                        /\ pages' = [pages EXCEPT ![f].is_dirty = FALSE]
                        /\ UNCHANGED <<page_table, free_list, next_page_id, replacer>>
                ELSE last'.res = "false" /\ last'.writes = 0 /\ SameFields
             /\ NoLog(FlushPageOp(FlushPageOp(Fields, p).st, p).st)
                    = NoLog(FlushPageOp(Fields, p).st)]_vars

\* the last call was FlushAllPages
FlushedAll == last.op = "FlushAllPages"

\* C12: when FlushAllPages has returned, for every page id some frame holds
\* the disk holds that frame's bytes under that page id and the frame is
\* clean, whether the page id is below pool_size or not.
C12_FlushAllPages ==
    FlushedAll =>
        \A f \in Frames :
            pages[f].page_id # INVALID_PAGE_ID
            => disk[pages[f].page_id] = pages[f].data /\ ~pages[f].is_dirty

\* NewPage -> UnpinPage(p, false) -> DeletePage(p) from the current state,
\* p the page NewPage hands out, g the value DeletePage reads from the erased
\* iterator: the three calls' results, where the frame came from and the
\* free list at the end
NewUnpinDelete(u, g) ==
    LET a == NewPageOp(Fields, u)
        p == next_page_id
        b == UnpinPageOp(NoLog(a.st), p, FALSE)
        c == DeletePageOp(NoLog(b.st), p, g)
    IN  [new |-> a.res, src |-> a.src, unpin |-> b.res, delete |-> c.res,
         free_list |-> c.st.free_list]

Evictable(r) == {f \in Frames : r.node_store[f].tracked /\ r.node_store[f].is_evictable}

\* frame f has fewer than k recorded accesses
Young(r, f) == Len(r.node_store[f].history) < r.k

\* the oldest timestamp the replacer keeps for f: f's first access while f
\* is young, its k-th most recent access once f has k of them
Oldest(r, f) == r.node_store[f].history[1]

\* the step is an Evict that returned a frame
Evicted == Evict /\ last'.res = "true"

\* C14: the frame Evict returns is evictable and has the largest backward
\* k-distance among the evictable frames: it has fewer than k accesses if any
\* evictable frame has, and else its k-th most recent access is the earliest.
C14_EvictMaxKDistance ==
    [][Evicted
       => LET f == last'.frame
              E == Evictable(replacer)
          IN  /\ f \in E
              /\ IF \E g \in E : Young(replacer, g)
                 THEN Young(replacer, f)
                 ELSE \A g \in E : Oldest(replacer, f) <= Oldest(replacer, g)]_vars

\* C15: when Evict returns a frame with fewer than k accesses, no evictable
\* frame with fewer than k accesses has an earlier first access.
C15_YoungFifo ==
    [][(Evicted /\ Young(replacer, last'.frame))
       => \A g \in Evictable(replacer) :
             Young(replacer, g)
             => Oldest(replacer, last'.frame) <= Oldest(replacer, g)]_vars

\* C16: Evict returns no frame exactly when no tracked frame is evictable;
\* the frame it returns was evictable, is untracked afterwards with its
\* history gone, so that a RecordAccess starts it again with one access and
\* not evictable, and Size() is one less than before.
C16_Evict ==
    [][Evict
       => /\ (last'.res = "false") <=> (Evictable(replacer) = {})
          /\ last'.res = "true"
             => LET f == last'.frame
                    again == ReplacerRecordAccess(replacer', f).node_store[f]
                IN  /\ f \in Evictable(replacer)
                    /\ replacer'.node_store[f] = NoNode
                    /\ ~SeqContains(replacer'.less_k_frames, f)
                    /\ ~SeqContains(replacer'.k_frames, f)
                    /\ Len(again.history) = 1 /\ ~again.is_evictable
                    /\ ReplacerSize(replacer') = ReplacerSize(replacer) - 1]_vars

\* Evict has returned a frame while another frame stays evictable
C16_Witness ==
    /\ last.op = "Evict"
    /\ last.res = "true"
    /\ ReplacerSize(replacer) = 1

\* C17: after any calls, failed ones included, Size() is the number of
\* frames the calls so far left tracked with the evictable flag true.
C17_Size ==
    /\ ReplacerSize(replacer) = Cardinality({f \in Frames : last.marks[f] = "evictable"})
    /\ last.op = "Size" => last.size = ReplacerSize(replacer)

\* Size() has returned 1 right after a call on the other frame failed
C17_Witness ==
    /\ last.op = "Size"
    /\ last.size = 1
    /\ \E f \in Frames : last.marks[f] = "untracked"

(***************************************************************************)
(* Key order inside the pages of the B+ tree.                              *)
(***************************************************************************)
\* the keys of page pg in slots from .. size-1 are strictly increasing
StrictlyIncreasing(pg, from) ==
    \A i \in Slots, j \in Slots :
        (from <= i /\ i < j /\ j < pg.size) => pg.arr[i].key < pg.arr[j].key

\* C20: after any sequence of Insert calls, the keys stored in every leaf
\* page (slots 0..size-1) and in every internal page (slots 1..size-1) are
\* strictly increasing under the comparator.
C20_KeysStrictlyIncreasing ==
    \A id \in DOMAIN tree.pages :
        /\ tree.pages[id].page_type = "LEAF" => StrictlyIncreasing(tree.pages[id], 0)
        /\ tree.pages[id].page_type = "INTERNAL" => StrictlyIncreasing(tree.pages[id], 1)

(***************************************************************************)
(* Page guards.  A guard is a record                                       *)
(*   kind     : "basic", "read" or "write" (the class of the object)       *)
(*   pc       : "latch" (its thread is inside FetchPageRead/Write, after   *)
(*              FetchPage and before the latch call returns) or "live"     *)
(*   bpm      : bpm_ is the manager (TRUE) or nullptr (FALSE)              *)
(*   page     : the frame page_ points to, NoFrame for nullptr             *)
(*   is_dirty : is_dirty_                                                  *)
(*   pid      : history: the page id the pin the guard owns was taken for  *)
(* The methods act on a record s of the manager's fields (s.st), the       *)
(* guards, the latches and the trace of the calls made so far.             *)
(***************************************************************************)
GuardKinds == {"basic", "read", "write"}

\* a latch or UnpinPage call a guard operation makes
GuardEvent(e, f, p, d) == [ev |-> e, frame |-> f, page_id |-> p, is_dirty |-> d]

\* BasicPageGuard(bpm, page), as the guarded fetches construct it
GuardNew(kind, f, p) ==
    [kind |-> kind, pc |-> "live", bpm |-> TRUE, page |-> f, is_dirty |-> FALSE,
     pid |-> IF f = NoFrame THEN INVALID_PAGE_ID ELSE p]

\* a default-constructed guard
GuardDefault(kind) ==
    [kind |-> kind, pc |-> "live", bpm |-> FALSE, page |-> NoFrame,
     is_dirty |-> FALSE, pid |-> INVALID_PAGE_ID]

\* bpm_ = nullptr; page_ = nullptr; is_dirty_ = false;
GuardReset(gd) ==
    [gd EXCEPT !.bpm = FALSE, !.page = NoFrame, !.is_dirty = FALSE,
               !.pid = INVALID_PAGE_ID]

\* bpm_ = that.bpm_; page_ = that.page_; is_dirty_ = that.is_dirty_;
GuardTake(gd, that) ==
    [gd EXCEPT !.bpm = that.bpm, !.page = that.page, !.is_dirty = that.is_dirty,
               !.pid = that.pid]

\* the guards, the latches and the manager's fields in the current state
GuardFields == [st |-> Fields, guards |-> guards, latches |-> latches, trace |-> <<>>]

\* BasicPageGuard::BasicPageGuard(BasicPageGuard &&that): the new guard is
\* the last of s.guards
BasicGuardMove(s, that) ==
    [s EXCEPT !.guards = Append([@ EXCEPT ![that] = GuardReset(@)],
                                GuardTake(GuardDefault(s.guards[that].kind),
                                          s.guards[that]))]

\* BasicPageGuard::Drop; should UnpinPage throw, the fields are not reset
BasicGuardDrop(s, g) ==
    LET gd == s.guards[g]
        p == s.st.pages[gd.page].page_id
        r == UnpinPageOp(s.st, p, gd.is_dirty)
    IN  IF gd.page # NoFrame
        THEN [s EXCEPT !.st = r.st,
                       !.guards[g] = IF r.res = "throw" THEN gd ELSE GuardReset(gd),
                       !.trace = Append(@, GuardEvent("UnpinPage", gd.page, p, gd.is_dirty))]
        ELSE s

\* BasicPageGuard::operator=(BasicPageGuard &&that)
BasicGuardAssign(s, g, that) ==
    IF g # that
    THEN LET s1 == BasicGuardDrop(s, g)
         IN  [s1 EXCEPT !.guards[g] = GuardTake(s1.guards[g], s1.guards[that]),
                        !.guards[that] = GuardReset(s1.guards[that])]
    ELSE s

\* Page::RUnlatch and Page::WUnlatch of frame f
RUnlatch(s, f) ==
    [s EXCEPT !.latches[f].readers = @ - 1,
              !.trace = Append(@, GuardEvent("RUnlatch", f, s.st.pages[f].page_id, FALSE))]

WUnlatch(s, f) ==
    [s EXCEPT !.latches[f].writer = FALSE,
              !.trace = Append(@, GuardEvent("WUnlatch", f, s.st.pages[f].page_id, FALSE))]

\* ReadPageGuard::Drop
ReadGuardDrop(s, g) ==
    BasicGuardDrop(IF s.guards[g].page # NoFrame THEN RUnlatch(s, s.guards[g].page) ELSE s, g)

\* WritePageGuard::Drop
WriteGuardDrop(s, g) ==
    BasicGuardDrop(IF s.guards[g].page # NoFrame THEN WUnlatch(s, s.guards[g].page) ELSE s, g)

\* ReadPageGuard::operator=(ReadPageGuard &&that)
ReadGuardAssign(s, g, that) ==
    IF g # that THEN BasicGuardAssign(ReadGuardDrop(s, g), g, that) ELSE s

\* WritePageGuard::operator=(WritePageGuard &&that)
WriteGuardAssign(s, g, that) ==
    IF g # that THEN BasicGuardAssign(WriteGuardDrop(s, g), g, that) ELSE s

\* Drop() of the guard's class
GuardDrop(s, g) ==
    CASE s.guards[g].kind = "read" -> ReadGuardDrop(s, g)
      [] s.guards[g].kind = "write" -> WriteGuardDrop(s, g)
      [] OTHER -> BasicGuardDrop(s, g)

\* operator= of the guard's class
GuardAssign(s, g, that) ==
    CASE s.guards[g].kind = "read" -> ReadGuardAssign(s, g, that)
      [] s.guards[g].kind = "write" -> WriteGuardAssign(s, g, that)
      [] OTHER -> BasicGuardAssign(s, g, that)

(***************************************************************************)
(* The guards as a state machine.  The clients are threads that reach the  *)
(* manager through guards only: they take guards from NewPageGuarded and   *)
(* FetchPageBasic/Read/Write of the later revision, mark them dirty,       *)
(* move, drop and destroy them.  A thread that waits for a latch is a      *)
(* guard at pc "latch".  A guard is named by its place in guards.          *)
(***************************************************************************)
GuardIds == 1 .. Len(guards)

\* the state after a guard operation; last is left to the manager's own
\* clients
GuardCommit(s) ==
    /\ pages' = s.st.pages
    /\ page_table' = s.st.page_table
    /\ free_list' = s.st.free_list
    /\ next_page_id' = s.st.next_page_id
    /\ replacer' = s.st.replacer
    /\ disk' = s.st.disk
    /\ guards' = s.guards
    /\ latches' = s.latches
    /\ glast' = s.trace
    /\ UNCHANGED last

\* the frame a successful NewPage or FetchPage of page p returned
FrameOf(r, p) == IF r.res = "ok" THEN r.st.page_table[p] ELSE NoFrame

\* BasicPageGuard g;  ReadPageGuard g;  WritePageGuard g;
DefaultGuard(kind) ==
    /\ Len(guards) < MaxGuards
    /\ GuardCommit([GuardFields EXCEPT !.guards = Append(@, GuardDefault(kind))])

\* auto g = bpm->NewPageGuarded(&page_id);
NewPageGuarded ==
    /\ Len(guards) < MaxGuards
    /\ next_page_id < MaxPages
    /\ replacer.current_timestamp < MaxGuardTime
    /\ \E u \in Uninitialised :
          LET r == NewPageOp(Fields, u)
              f == FrameOf(r, next_page_id)
          IN  GuardCommit([GuardFields EXCEPT
                             !.st = r.st,
                             !.guards = Append(@, GuardNew("basic", f, next_page_id))])

\* FetchPage(p) as the guarded fetches call it
GuardFetch(p, kind, pc) ==
    /\ Len(guards) < MaxGuards
    /\ p \in Allocated
    /\ IF InTable(Fields, p)
       THEN pages[page_table[p]].pin_count < MaxPin
       ELSE TakeFrame(Fields, NoFrame).ok => replacer.current_timestamp < MaxGuardTime
    /\ LET r == FetchPageOp(Fields, p, NoFrame)
           f == FrameOf(r, p)
       IN  GuardCommit([GuardFields EXCEPT
                          !.st = r.st,
                          !.guards = Append(@, [GuardNew(kind, f, p) EXCEPT !.pc = pc])])

\* auto g = bpm->FetchPageBasic(p);
FetchPageBasic(p) == GuardFetch(p, "basic", "live")

\* bpm->FetchPageRead(p) up to the return of FetchPage
FetchPageRead(p) == GuardFetch(p, "read", "latch")

\* bpm->FetchPageWrite(p) up to the return of FetchPage
FetchPageWrite(p) == GuardFetch(p, "write", "latch")

\* page->RLatch() or page->WLatch() returns and the guard is constructed
LatchPage(g) ==
    /\ guards[g].pc = "latch"
    /\ guards[g].page # NoFrame
    /\ LET f == guards[g].page
           rd == guards[g].kind = "read"
       IN  /\ ~latches[f].writer
           /\ rd \/ latches[f].readers = 0
           /\ GuardCommit([GuardFields EXCEPT
                              !.guards[g].pc = "live",
                              !.latches[f] = IF rd THEN [@ EXCEPT !.readers = @ + 1]
                                             ELSE [@ EXCEPT !.writer = TRUE],
                              !.trace = <<GuardEvent(IF rd THEN "RLatch" ELSE "WLatch",
                                                     f, pages[f].page_id, FALSE)>>])

\* page->RLatch() or page->WLatch() on the nullptr FetchPage returned: the
\* thread stops there, or goes on and returns the guard {this, nullptr}
LatchNull(g) ==
    /\ guards[g].pc = "latch"
    /\ guards[g].page = NoFrame
    /\ \E gs \in {RemoveAt(guards, g), [guards EXCEPT ![g].pc = "live"]} :
          GuardCommit([GuardFields EXCEPT
                          !.guards = gs,
                          !.trace = <<GuardEvent(IF guards[g].kind = "read" THEN "RLatch"
                                                 ELSE "WLatch",
                                                 NoFrame, INVALID_PAGE_ID, FALSE)>>])

\* the holder of a basic or write guard writes to the page through it, which
\* sets the guard's dirty hint
MarkDirty(g) ==
    /\ guards[g].pc = "live"
    /\ guards[g].kind \in {"basic", "write"}
    /\ guards[g].page # NoFrame
    /\ ~guards[g].is_dirty
    /\ GuardCommit([GuardFields EXCEPT !.guards[g].is_dirty = TRUE])

\* Guard g(std::move(that));
MoveConstruct(that) ==
    /\ Len(guards) < MaxGuards
    /\ guards[that].pc = "live"
    /\ GuardCommit(BasicGuardMove(GuardFields, that))

\* g = std::move(that);
MoveAssign(g, that) ==
    /\ guards[g].pc = "live"
    /\ guards[that].pc = "live"
    /\ guards[g].kind = guards[that].kind
    /\ GuardCommit(GuardAssign(GuardFields, g, that))

\* g.Drop();
Drop(g) ==
    /\ guards[g].pc = "live"
    /\ GuardCommit(GuardDrop(GuardFields, g))

\* g goes out of scope: ~Guard() calls Drop()
Destroy(g) ==
    /\ guards[g].pc = "live"
    /\ GuardCommit([GuardDrop(GuardFields, g) EXCEPT !.guards = RemoveAt(@, g)])

NextGuards ==
    /\ \/ \E kind \in GuardKinds : DefaultGuard(kind)
       \/ NewPageGuarded
       \/ \E p \in PageIds : FetchPageBasic(p)
       \/ \E p \in PageIds : FetchPageRead(p)
       \/ \E p \in PageIds : FetchPageWrite(p)
       \/ \E g \in GuardIds : LatchPage(g)
       \/ \E g \in GuardIds : LatchNull(g)
       \/ \E g \in GuardIds : MarkDirty(g)
       \/ \E that \in GuardIds : MoveConstruct(that)
       \/ \E g \in GuardIds, that \in GuardIds : MoveAssign(g, that)
       \/ \E g \in GuardIds : Drop(g)
       \/ \E g \in GuardIds : Destroy(g)
    /\ UNCHANGED content
    /\ UNCHANGED treeVars
    /\ UNCHANGED trie

SpecGuards == Init /\ [][NextGuards]_vars

(***************************************************************************)
(* Properties of the page guards.                                          *)
(***************************************************************************)
\* guard g owns a pin
Owns(g) == guards[g].page # NoFrame

\* the UnpinPage calls of the last guard operation
Unpins(trace) == SelectSeq(trace, LAMBDA e : e.ev = "UnpinPage")

\* the one UnpinPage call that releases the pin of guard g: for the page the
\* pin was taken for, with the guard's dirty hint
Release(g) ==
    IF Owns(g)
    THEN <<GuardEvent("UnpinPage", guards[g].page, guards[g].pid, guards[g].is_dirty)>>
    ELSE <<>>

\* guard record a holds what guard record b held
HoldsWhat(a, b) == a.page = b.page /\ a.is_dirty = b.is_dirty /\ a.pid = b.pid

\* C18: under any sequence of move-constructions, move-assignments
\* (self-move-assignment included), Drop calls and destructions of
\* Basic/Read/Write guards, each acquired pin results in exactly one
\* UnpinPage call for its page carrying the guard's dirty hint: a guard that
\* is dropped, destroyed or move-assigned over makes that call when it owns a
\* pin and is empty afterwards; a moved-from, dropped or default guard is
\* empty and unpins nothing; a move transfers the pin without a call.
C18_GuardUnpinsOnce ==
    [][\A g \in GuardIds :
          /\ Drop(g) => /\ Unpins(glast') = Release(g)
                        /\ guards'[g].page = NoFrame
          /\ Destroy(g) => Unpins(glast') = Release(g)
          /\ MoveConstruct(g) =>
                /\ Unpins(glast') = <<>>
                /\ HoldsWhat(guards'[Len(guards')], guards[g])
                /\ guards'[g].page = NoFrame
          /\ \A that \in GuardIds :
                MoveAssign(g, that) =>
                    IF g = that
                    THEN Unpins(glast') = <<>> /\ guards' = guards
                    ELSE /\ Unpins(glast') = Release(g)
                         /\ HoldsWhat(guards'[g], guards[that])
                         /\ guards'[that].page = NoFrame]_vars

\* the guards that hold a latch: live read and write guards that own a pin
Latched == {g \in GuardIds : guards[g].pc = "live" /\ guards[g].kind # "basic" /\ Owns(g)}

\* the calls a read or write guard makes when it gives up what it owns
Unlatches(g) ==
    IF Owns(g)
    THEN <<GuardEvent(IF guards[g].kind = "read" THEN "RUnlatch" ELSE "WUnlatch",
                      guards[g].page, pages[guards[g].page].page_id, FALSE),
           GuardEvent("UnpinPage", guards[g].page, pages[guards[g].page].page_id,
                      guards[g].is_dirty)>>
    ELSE <<>>

\* every guard that holds a latch holds it on a pinned frame
LatchedArePinned == \A g \in Latched : pages[guards[g].page].pin_count >= 1

\* a read or write guard that is dropped, destroyed or move-assigned over
\* releases its latch once and then calls UnpinPage
UnlatchThenUnpin ==
    \A g \in GuardIds :
        guards[g].kind # "basic" =>
            /\ Drop(g) \/ Destroy(g) => glast' = Unlatches(g)
            /\ \A that \in GuardIds \ {g} : MoveAssign(g, that) => glast' = Unlatches(g)

\* C19: the frame's R- or W-latch is acquired only after FetchPage has
\* pinned the page; on Drop, destruction or being move-assigned over the
\* latch is released exactly once and before UnpinPage is called; so whenever
\* a latch is held through a guard, the page's pin_count is at least 1.
C19_LatchInsidePin ==
    [][/\ \A g \in GuardIds :
             /\ ~LatchNull(g)
             /\ LatchPage(g) => pages[guards[g].page].pin_count >= 1
       /\ UnlatchThenUnpin
       /\ LatchedArePinned']_vars

(***************************************************************************)
(* The B+ tree under Insert calls alone, for every leaf_max_size and       *)
(* internal_max_size in MinNodeSize .. MaxNodeSize: a single client        *)
(* inserts keys of InsertKeys, each with the record id made from the key   *)
(* as InsertFromFile makes it.                                             *)
(***************************************************************************)
NodeSizes == MinNodeSize .. MaxNodeSize
InsertKeys == 1 .. MaxInsertKey

InitInserts ==
    /\ BpmInit
    /\ NoGuards
    /\ NoTrie
    /\ tree \in {TreeNew(l, i) : l \in NodeSizes, i \in NodeSizes}
    /\ stored = <<>>
    /\ tlast = NoTreeCall
    /\ threads = <<>>

\* Insert(key, RID(key))
InsertKey(key) ==
    /\ Inserted < MaxTreeInserts
    /\ tree' = TreeInsert(tree, key, key).t
    /\ tlast' = [op |-> "Insert", key |-> key, value |-> key, ok |-> TRUE, result |-> <<>>]
    /\ UNCHANGED stored

NextInserts ==
    /\ \E key \in InsertKeys : InsertKey(key)
    /\ UNCHANGED threads
    /\ UNCHANGED bpmVars
    /\ UNCHANGED guardVars
    /\ UNCHANGED trie

SpecInserts == InitInserts /\ [][NextInserts]_vars

(***************************************************************************)
(* Properties of the B+ tree under Insert calls.                           *)
(***************************************************************************)
\* the internal pages of the tree
InternalPages == {id \in DOMAIN tree.pages : tree.pages[id].page_type = "INTERNAL"}

\* the leaf pages of the tree
LeafPages == {id \in DOMAIN tree.pages : tree.pages[id].page_type = "LEAF"}

\* the largest number of a non-empty set of numbers
Largest(S) == CHOOSE m \in S : \A n \in S : n <= m

\* the child index a key belongs to in internal page pg: 0 below KeyAt(1),
\* else the largest i in 1 .. size-1 with KeyAt(i) <= key
ChildIndexOf(pg, key) ==
    IF key < pg.arr[1].key THEN 0
    ELSE Largest({i \in 1 .. (pg.size - 1) : pg.arr[i].key <= key})

\* C21: for an internal page with size >= 2 and strictly increasing keys in
\* slots 1 .. size-1, FindChildIndex(key) returns 0 when key < KeyAt(1) and
\* otherwise the largest index i in 1 .. size-1 with KeyAt(i) <= key, for
\* every key and every page size.
C21_FindChildIndex ==
    \A id \in InternalPages :
        LET pg == tree.pages[id]
        IN  (pg.size >= 2 /\ StrictlyIncreasing(pg, 1)) =>
                \A key \in InsertKeys : FindChildIndex(pg, key) = ChildIndexOf(pg, key)

\* the pages a descent from page cur can reach, n levels down at most
RECURSIVE Below(_, _, _)
Below(t, cur, n) ==
    IF cur \notin DOMAIN t.pages THEN {}
    ELSE IF t.pages[cur].page_type # "INTERNAL" \/ n = 0 THEN {cur}
    ELSE {cur} \cup UNION {Below(t, t.pages[cur].arr[i].value, n - 1) :
                              i \in {j \in Slots : j < t.pages[cur].size}}

\* the leaves of the tree: those a descent from the header's root reaches
TreeLeaves == {id \in Below(tree, tree.root, tree.next) : tree.pages[id].page_type = "LEAF"}

\* the pages of the tree: those a descent from the header's root reaches
TreePages == Below(tree, tree.root, tree.next)

\* the pages other than the root the header page names hold at least
\* least(max_size) entries
Occupancy(ids, least(_)) ==
    \A id \in ids \ {tree.root} : tree.pages[id].size >= least(tree.pages[id].max_size)

\* C22: after any sequence of Insert calls, every leaf and internal page
\* other than the root holds at least ceil(max_size/2) entries, for every
\* leaf_max_size and internal_max_size >= 3 (odd and even).
C22_HalfFull ==
    Occupancy(TreePages, LAMBDA m : (m + 1) \div 2)

\* C22 as the code has it: after any sequence of Insert calls, every leaf
\* of the tree other than the root holds at least floor(max_size/2) entries
\* and every internal page of the tree other than the root at least
\* ceil(max_size/2).
C22_SplitShares ==
    /\ Occupancy(LeafPages \cap TreePages, LAMBDA m : m \div 2)
    /\ Occupancy(InternalPages \cap TreePages, LAMBDA m : (m + 1) \div 2)

\* a leaf of odd max_size left with floor(max_size/2) entries, and an
\* internal page other than the root with ceil(max_size/2)
C22_Witness ==
    /\ \E id \in (LeafPages \cap TreePages) \ {tree.root} :
          /\ tree.pages[id].max_size = MinNodeSize
          /\ tree.pages[id].size = MinNodeSize \div 2
    /\ \E id \in (InternalPages \cap TreePages) \ {tree.root} :
          tree.pages[id].size = (tree.pages[id].max_size + 1) \div 2

\* the leftmost leaf: slot 0 all the way down from the root
RECURSIVE Leftmost(_, _, _)
Leftmost(t, cur, n) ==
    IF cur \notin DOMAIN t.pages \/ n = 0 THEN INVALID_PAGE_ID
    ELSE IF t.pages[cur].page_type = "LEAF" THEN cur
    ELSE Leftmost(t, t.pages[cur].arr[0].value, n - 1)

\* the leaves next_page_id leads through from leaf cur, n of them at most
RECURSIVE Chain(_, _, _)
Chain(t, cur, n) ==
    IF cur \notin DOMAIN t.pages \/ n = 0 THEN <<>>
    ELSE <<cur>> \o Chain(t, t.pages[cur].next, n - 1)

LeafChain == Chain(tree, Leftmost(tree, tree.root, tree.next), tree.next)

\* the keys of a leaf
KeysOf(id) == {tree.pages[id].arr[i].key : i \in {j \in Slots : j < tree.pages[id].size}}

\* C23: after any sequence of Insert calls, following next_page_id from the
\* leftmost leaf visits every leaf of the tree exactly once and ends at
\* INVALID_PAGE_ID, and the leaves are visited in key order: every key of a
\* leaf is smaller than every key of the leaf that follows it.
C23_LeafChain ==
    /\ \A id \in TreeLeaves :
          Cardinality({i \in 1 .. Len(LeafChain) : LeafChain[i] = id}) = 1
    /\ Len(LeafChain) < tree.next
    /\ \A i \in 1 .. (Len(LeafChain) - 1) :
          \A a \in KeysOf(LeafChain[i]), b \in KeysOf(LeafChain[i + 1]) : a < b

\* the keys of the leaves below page id of tree t
KeysBelow(t, id) ==
    UNION {{t.pages[l].arr[i].key : i \in {j \in Slots : j < t.pages[l].size}} :
              l \in {b \in Below(t, id, t.next) : t.pages[b].page_type = "LEAF"}}

\* the smallest number of a non-empty set of numbers
Smallest(S) == CHOOSE m \in S : \A n \in S : m <= n

\* Insert(key) on the current tree splits the leaf of key and finds the
\* leaf's parent full
SplitsParent(key) ==
    /\ ~IsEmpty(tree)
    /\ LET leaf == FindLeafNode(tree, key)
       IN  /\ ~InsertInLeaf(tree.pages[leaf], key, key).ok
           /\ ~tree.pages[leaf].is_root
           /\ tree.pages[tree.pages[leaf].parent].size
                 >= tree.pages[tree.pages[leaf].parent].max_size

\* the split of the parent that Insert(key) makes then
ParentSplit(key) ==
    LET leaf == FindLeafNode(tree, key)
        s == SplitLeaf(tree, leaf, key, key)
    IN  SplitInternal(s.t, tree.pages[leaf].parent, s.middle_key, s.t.pages[s.new].page)

\* C24: when InsertInParent finds the parent full, the parent's entries plus
\* the new (key, child) are split so that the old node keeps
\* ceil((max_size+1)/2) entries and the new node gets the rest, and the key
\* handed to the grandparent is the first key of the right half and equals
\* the smallest key reachable in the right subtree.
C24_InternalSplit ==
    \A key \in InsertKeys :
        SplitsParent(key) =>
            LET s == ParentSplit(key)
                old == tree.pages[FindLeafNode(tree, key)].parent
                max_size == tree.pages[old].max_size
            IN  /\ s.t.pages[old].size = (max_size + 2) \div 2
                /\ s.t.pages[s.new].size = max_size + 1 - ((max_size + 2) \div 2)
                /\ s.middle_key = s.t.pages[s.new].arr[0].key
                /\ s.middle_key = Smallest(KeysBelow(s.t, s.new))

\* the keys of page id of tree t, slot by slot
KeySeq(t, id) == [i \in 1 .. t.pages[id].size |-> t.pages[id].arr[i - 1].key]

\* tree t is a single root leaf that holds exactly the keys ks
SingleRootLeaf(t, ks) ==
    /\ t.root \in DOMAIN t.pages
    /\ DOMAIN t.pages = {t.root}
    /\ t.pages[t.root].page_type = "LEAF"
    /\ KeySeq(t, t.root) = ks

\* tree t is a root internal page whose slot-1 key is sep, over the leaves
\* left (slot 0) and right (slot 1)
TwoLeaves(t, left, sep, right) ==
    /\ t.root \in DOMAIN t.pages
    /\ LET r == t.pages[t.root]
       IN  /\ r.page_type = "INTERNAL" /\ r.size = 2
           /\ r.arr[1].key = sep
           /\ {r.arr[0].value, r.arr[1].value} \subseteq DOMAIN t.pages
           /\ t.pages[r.arr[0].value].page_type = "LEAF"
           /\ t.pages[r.arr[1].value].page_type = "LEAF"
           /\ KeySeq(t, r.arr[0].value) = left
           /\ KeySeq(t, r.arr[1].value) = right

\* C25: with leaf_max_size = 3 and internal_max_size = 3, inserting 5, 9, 1
\* leaves one root leaf with three keys and no split; inserting 4 next splits
\* it into [1,4] and [5,9] under a new root internal page whose slot-1 key is
\* 5, slot 0 pointing to the left leaf and slot 1 to the right leaf.
C25_Scenario ==
    [][(tree.leaf_max_size = 3 /\ tree.internal_max_size = 3)
       => /\ (SingleRootLeaf(tree, <<5, 9>>) /\ InsertKey(1))
                => SingleRootLeaf(tree', <<1, 5, 9>>)
          /\ (SingleRootLeaf(tree, <<1, 5, 9>>) /\ InsertKey(4))
                => TwoLeaves(tree', <<1, 4>>, 5, <<5, 9>>)]_vars

(***************************************************************************)
(* Concurrent writers: MaxWriters threads call BPlusTree::Insert with      *)
(* pairwise distinct keys, value = key.  A thread record is                *)
(*   [pc, key, cur, parent, held]                                          *)
(* pc the call it is about to make, cur the page id its descent is at,     *)
(* parent the page the descent came from, held the pages whose latch it    *)
(* holds between two steps.  One step is what a thread does from acquiring *)
(* a latch to releasing it (the guard of line 30, 56, 234, 248 or 309 and  *)
(* what is done under it); the header page's latch is therefore never held *)
(* between two steps.  stored is the sequence of the keys whose Insert has *)
(* returned.  Nothing is evicted: the pages are those of the tree.         *)
(***************************************************************************)
Idle == [pc |-> "idle", key |-> 0, cur |-> INVALID_PAGE_ID,
         parent |-> INVALID_PAGE_ID, held |-> {}]

InitWriters ==
    /\ BpmInit
    /\ NoGuards
    /\ NoTrie
    /\ tree = EmptyTree
    /\ stored = <<>>
    /\ tlast = NoTreeCall
    /\ threads = [th \in 1 .. MaxWriters |-> Idle]

\* thread th calls Insert(key, RID(key)); no other call in progress has key
Call(th, key) ==
    /\ threads[th].pc = "idle"
    /\ LET calling == {threads[o].key : o \in {o \in DOMAIN threads : threads[o].pc # "idle"}}
       IN  /\ Len(stored) + Cardinality(calling) < MaxWriterInserts
           /\ key \notin calling
    /\ \A i \in DOMAIN stored : stored[i] # key
    /\ threads' = [threads EXCEPT ![th] = [Idle EXCEPT !.pc = "IsEmpty", !.key = key]]
    /\ UNCHANGED <<tree, stored>>

\* line 232: IsEmpty() reads the header under its own read guard
CheckEmpty(th) ==
    /\ threads[th].pc = "IsEmpty"
    /\ threads' = [threads EXCEPT ![th].pc =
                      IF IsEmpty(tree) THEN "StartNewTree" ELSE "GetRootPageId"]
    /\ UNCHANGED <<tree, stored>>

\* lines 233-246: under the header's write guard, a new root leaf
CreateRoot(th) ==
    /\ threads[th].pc = "StartNewTree"
    /\ tree' = StartNewTree(tree, threads[th].key, threads[th].key)
    /\ stored' = Append(stored, threads[th].key)
    /\ threads' = [threads EXCEPT ![th] = Idle]

\* line 53: GetRootPageId() reads the header under its own read guard
ReadRoot(th) ==
    /\ threads[th].pc = "GetRootPageId"
    /\ threads' = [threads EXCEPT ![th].pc = "FetchPageRead",
                                  ![th].cur = GetRootPageId(tree)]
    /\ UNCHANGED <<tree, stored>>

\* line 56: page_guard = FetchPageRead(current_page_id)
FetchNode(th) ==
    /\ threads[th].pc = "FetchPageRead"
    /\ threads[th].cur # INVALID_PAGE_ID
    /\ threads' = [threads EXCEPT ![th].pc = "node", ![th].held = {threads[th].cur}]
    /\ UNCHANGED <<tree, stored>>

\* lines 57-66: the rest of the loop body; page_guard is destroyed at its end
ReadNode(th) ==
    /\ threads[th].pc = "node"
    /\ LET pg == tree.pages[threads[th].cur]
       IN  threads' = [threads EXCEPT ![th] =
              IF pg.page_type = "LEAF"
              THEN [@ EXCEPT !.pc = "FetchPageWrite", !.held = {}]
              ELSE [@ EXCEPT !.pc = "FetchPageRead", !.held = {},
                             !.parent = threads[th].cur,
                             !.cur = pg.arr[FindChildIndex(pg, threads[th].key)].value]]
    /\ UNCHANGED <<tree, stored>>

\* lines 248-257: under the leaf's write guard, InsertInLeaf or SplitLeafNode;
\* the write guards taken on the way up wait for the readers of those pages
WriteLeaf(th) ==
    /\ threads[th].pc = "FetchPageWrite"
    /\ LET t == InsertAtLeaf(tree, threads[th].cur, threads[th].key, threads[th].key)
       IN  /\ \A o \in DOMAIN threads : \A p \in threads[o].held :
                  t.pages[p] = tree.pages[p]
           /\ tree' = t
    /\ stored' = Append(stored, threads[th].key)
    /\ threads' = [threads EXCEPT ![th] = Idle]

NextWriters ==
    /\ \E th \in DOMAIN threads :
          \/ \E key \in 1 .. MaxWriterKey : Call(th, key)
          \/ CheckEmpty(th)
          \/ CreateRoot(th)
          \/ ReadRoot(th)
          \/ FetchNode(th)
          \/ ReadNode(th)
          \/ WriteLeaf(th)
    /\ UNCHANGED tlast
    /\ UNCHANGED bpmVars
    /\ UNCHANGED guardVars
    /\ UNCHANGED trie

SpecWriters == InitWriters /\ [][NextWriters]_vars

\* the tree after Insert(k, RID(k)) for each k of ks in order
RECURSIVE InsertAll(_, _)
InsertAll(t, ks) ==
    IF ks = <<>> THEN t ELSE InsertAll(TreeInsert(t, Head(ks), Head(ks)).t, Tail(ks))

\* the orders the keys of sequence ks can be put in
Orders(ks) ==
    {o \in [DOMAIN ks -> {ks[i] : i \in DOMAIN ks}] :
        \A i, j \in DOMAIN ks : i # j => o[i] # o[j]}

\* no call is in progress
Quiescent == \A th \in DOMAIN threads : threads[th].pc = "idle"

\* C26: when the concurrent Insert calls (pairwise distinct keys) have all
\* returned, the tree is one that some sequential order of those Inserts
\* produces, and every inserted key is in the leaf that a descent from the
\* header's root reaches for it.
C26_Linearizable ==
    Quiescent =>
        /\ \E o \in Orders(stored) : tree = InsertAll(EmptyTree, o)
        /\ \A i \in DOMAIN stored :
              /\ FindLeafNode(tree, stored[i]) \in DOMAIN tree.pages
              /\ stored[i] \in KeysOf(FindLeafNode(tree, stored[i]))

\* C27: the descent holds a page latch at every moment between latching the
\* root and reaching the leaf: when it is about to fetch a child, it still
\* holds the latch of the parent it read the child's id from.
C27_LatchCrabbing ==
    \A th \in DOMAIN threads :
        (threads[th].pc = "FetchPageRead" /\ threads[th].parent # INVALID_PAGE_ID)
            => threads[th].parent \in threads[th].held

(***************************************************************************)
(* The persistent trie (primer/trie.cpp).  The nodes live in a heap, a     *)
(* sequence indexed by node id; 0 is the null pointer.  A node is          *)
(*   [children, is_value_node, type, value]                                *)
(* children: char -> node id (0: no entry), type the T of a                *)
(* TrieNodeWithValue<T> ("none" for a plain TrieNode).  A Trie is the id   *)
(* of its root.  trie = [heap, versions, fault]: versions is the sequence  *)
(* of the tries made so far, the first one the empty trie; fault says that *)
(* a call dereferenced a null pointer and the process stopped.             *)
(***************************************************************************)
Chars == {"a", "b"}

TrieKeys == UNION {[1 .. n -> Chars] : n \in 0 .. MaxTrieKeyLen}

TrieTypes == {"uint32_t", "uint64_t"}

\* std::make_shared<TrieNode>()
TrieNode == [children |-> [c \in Chars |-> 0], is_value_node |-> FALSE,
             type |-> "none", value |-> 0]

\* TrieNodeWithValue<T>(children, value)
TrieNodeWithValue(children, T, value) ==
    [children |-> children, is_value_node |-> TRUE, type |-> T, value |-> value]

\* a new node on the heap: [h, id]
Alloc(h, node) == [h |-> Append(h, node), id |-> Len(h) + 1]

\* TrieNode::Clone, TrieNodeWithValue::Clone: a new node with the same
\* children_ map and value
Clone(h, id) == Alloc(h, h[id])

\* children_.empty()
NoChildren(node) == \A c \in Chars : node.children[c] = 0

\* Trie::Get<T>: the results the call can have, [status, value]
RECURSIVE TrieGet(_, _, _, _)
TrieGet(h, curr, key, T) ==
    IF key # <<>>
    THEN IF curr = 0 \/ h[curr].children[Head(key)] = 0
         THEN {[status |-> "nullptr", value |-> 0]}
         ELSE TrieGet(h, h[curr].children[Head(key)], Tail(key), T)
    ELSE IF curr = 0
         THEN \* line 26 reads curr->is_value_node_ of a null curr
              {[status |-> "fault", value |-> 0], [status |-> "nullptr", value |-> 0]}
         ELSE IF h[curr].is_value_node /\ h[curr].type = T
              THEN {[status |-> "found", value |-> h[curr].value]}
              ELSE {[status |-> "nullptr", value |-> 0]}

\* a walk that does not clone the children it finds: it goes on in the node
\* of the trie Put was called on
RECURSIVE PutWalkInPlace(_, _, _)
PutWalkInPlace(h, current_node, key) ==
    IF Len(key) <= 1 THEN [h |-> h, id |-> current_node]
    ELSE LET c == Head(key)
             n == IF h[current_node].children[c] = 0
                  THEN Alloc(h, TrieNode)
                  ELSE [h |-> h, id |-> h[current_node].children[c]]
         IN  PutWalkInPlace([n.h EXCEPT ![current_node].children[c] = n.id], n.id, Tail(key))

\* Trie::Put, lines 52-60: the walk from current_node along all but the last
\* character of key: [h, id], id the node the walk ends in
RECURSIVE PutWalk(_, _, _)
PutWalk(h, current_node, key) ==
    IF Len(key) <= 1 THEN [h |-> h, id |-> current_node]
    ELSE LET c == Head(key)
             n == IF h[current_node].children[c] = 0
                  THEN Alloc(h, TrieNode)
                  ELSE Clone(h, h[current_node].children[c])
         IN  PutWalk([n.h EXCEPT ![current_node].children[c] = n.id], n.id, Tail(key))

\* Trie::Put<T>: the results the call can have, [fault, h, root]
TriePut(h, root, key, T, value) ==
    LET new_root == IF root # 0 THEN Clone(h, root) ELSE Alloc(h, TrieNode)
    IN  IF key = <<>>
        THEN IF root = 0
             THEN \* line 47 reads root_->children_ of a null root_
                  LET n == Alloc(new_root.h, TrieNodeWithValue(TrieNode.children, T, value))
                  IN  {[fault |-> TRUE, h |-> h, root |-> root],
                       [fault |-> FALSE, h |-> n.h, root |-> n.id]}
             ELSE LET n == Alloc(new_root.h, TrieNodeWithValue(h[root].children, T, value))
                  IN  {[fault |-> FALSE, h |-> n.h, root |-> n.id]}
        ELSE LET w == PutWalk(new_root.h, new_root.id, key)
                 c == key[Len(key)]
                 old == w.h[w.id].children[c]
                 n == Alloc(w.h, TrieNodeWithValue(
                          IF old # 0 THEN w.h[old].children ELSE TrieNode.children, T, value))
             IN  {[fault |-> FALSE, h |-> [n.h EXCEPT ![w.id].children[c] = n.id],
                   root |-> new_root.id]}

\* RemoveHelper: [h, id], id = 0 for nullptr
RECURSIVE RemoveHelper(_, _, _)
RemoveHelper(h, node, key) ==
    IF key = <<>>
    THEN IF NoChildren(h[node]) THEN [h |-> h, id |-> 0]
         ELSE Alloc(h, [TrieNode EXCEPT !.children = h[node].children])
    ELSE LET c == Head(key)
         IN  IF h[node].children[c] = 0 THEN [h |-> h, id |-> node]
             ELSE LET cl == Clone(h, h[node].children[c])
                      child == RemoveHelper(cl.h, cl.id, Tail(key))
                      h1 == [child.h EXCEPT ![node].children[c] = child.id]
                  IN  IF child.id = 0 /\ NoChildren(h1[node]) /\ ~h1[node].is_value_node
                      THEN [h |-> h1, id |-> 0]
                      ELSE [h |-> h1, id |-> node]

\* Trie::Remove: [h, root]
TrieRemove(h, root, key) ==
    IF root = 0 THEN [h |-> h, root |-> 0]
    ELSE LET cl == Clone(h, root)
             r == RemoveHelper(cl.h, cl.id, key)
         IN  [h |-> r.h, root |-> r.id]

InitTrie ==
    /\ BpmInit
    /\ NoTree
    /\ NoGuards
    /\ trie = [heap |-> <<>>, versions |-> <<0>>, fault |-> FALSE]

\* t.Put<T>(key, value) for the trie t = versions[ver]
Put(ver, key, T, value) ==
    /\ ~trie.fault
    /\ Len(trie.versions) <= MaxTrieOps
    /\ \E r \in TriePut(trie.heap, trie.versions[ver], key, T, value) :
          trie' = IF r.fault THEN [trie EXCEPT !.fault = TRUE]
                  ELSE [trie EXCEPT !.heap = r.h, !.versions = Append(@, r.root)]

\* t.Remove(key) for the trie t = versions[ver]
RemoveKey(ver, key) ==
    /\ ~trie.fault
    /\ Len(trie.versions) <= MaxTrieOps
    /\ LET r == TrieRemove(trie.heap, trie.versions[ver], key)
       IN  trie' = [trie EXCEPT !.heap = r.h, !.versions = Append(@, r.root)]

NextTrie ==
    /\ \E ver \in DOMAIN trie.versions, key \in TrieKeys :
          \/ \E T \in TrieTypes, value \in 1 .. MaxTrieValue : Put(ver, key, T, value)
          \/ RemoveKey(ver, key)
    /\ UNCHANGED bpmVars
    /\ UNCHANGED treeVars
    /\ UNCHANGED guardVars

SpecTrie == InitTrie /\ [][NextTrie]_vars

\* the results of t.Get<T>(key) for the trie t = versions[ver]
GetOf(ver, key, T) == TrieGet(trie.heap, trie.versions[ver], key, T)

\* C28: for every trie t (the empty one included), key k (the empty one
\* included) and value v, t.Put(k, v).Get(k) returns v, and for every other
\* key k' t.Put(k, v).Get(k') returns what t.Get(k') returns.
C28_PutGet ==
    \A ver \in DOMAIN trie.versions, k \in TrieKeys, T \in TrieTypes,
       v \in 1 .. MaxTrieValue :
        \A r \in TriePut(trie.heap, trie.versions[ver], k, T, v) :
            /\ ~r.fault
            /\ TrieGet(r.h, r.root, k, T) = {[status |-> "found", value |-> v]}
            /\ \A k2 \in TrieKeys \ {k}, T2 \in TrieTypes :
                  TrieGet(r.h, r.root, k2, T2) = GetOf(ver, k2, T2)

\* C29: for every trie t, key k (the empty one included) and value v,
\* t.Put(k, v).Remove(k) has k unbound and agrees with t on Get for every
\* other key; Put then Remove on the empty trie yields the empty trie.
C29_PutRemove ==
    \A ver \in DOMAIN trie.versions, k \in TrieKeys, T \in TrieTypes,
       v \in 1 .. MaxTrieValue :
        \A r \in TriePut(trie.heap, trie.versions[ver], k, T, v) :
            /\ ~r.fault
            /\ LET rm == TrieRemove(r.h, r.root, k)
               IN  /\ \A T2 \in TrieTypes :
                         TrieGet(rm.h, rm.root, k, T2) = {[status |-> "nullptr", value |-> 0]}
                   /\ \A k2 \in TrieKeys \ {k}, T2 \in TrieTypes :
                         TrieGet(rm.h, rm.root, k2, T2) = GetOf(ver, k2, T2)
                   /\ trie.versions[ver] = 0 => rm.root = 0

\* the nodes reachable from node id of heap h
RECURSIVE Reach(_, _, _)
Reach(h, id, n) ==
    IF id = 0 \/ n = 0 THEN {}
    ELSE {id} \cup UNION {Reach(h, h[id].children[c], n - 1) : c \in Chars}

\* the nodes of the trie versions[ver]
NodesOf(ver) == Reach(trie.heap, trie.versions[ver], MaxTrieKeyLen + 1)

\* C30: Put and Remove modify no node reachable from the trie they are called
\* on, nor from any older trie: every such node is the same after the call,
\* and every trie made so far answers Get for every key as it did before.
C30_Immutable ==
    [][/\ \A ver \in DOMAIN trie.versions : \A id \in NodesOf(ver) :
             trie'.heap[id] = trie.heap[id]
       /\ \A ver \in DOMAIN trie.versions, k \in TrieKeys, T \in TrieTypes :
             TrieGet(trie'.heap, trie'.versions[ver], k, T) = GetOf(ver, k, T)]_vars

\* a Put went along a path of an older trie: the newest trie has a value
\* under a two-character key whose first node the older trie has too, it has
\* its own copy of that node, and it shares another node with the older trie
C30_Witness ==
    /\ ~trie.fault
    /\ \E old \in DOMAIN trie.versions :
          LET new == Len(trie.versions)
              o == trie.versions[old]
              n == trie.versions[new]
          IN  /\ old < new /\ o # 0 /\ n # 0 /\ o # n
              /\ NodesOf(old) \cap NodesOf(new) # {}
              /\ \E k \in TrieKeys, T \in TrieTypes :
                    /\ Len(k) = 2
                    /\ GetOf(old, k, T) # GetOf(new, k, T)
                    /\ trie.heap[o].children[k[1]] # 0
                    /\ trie.heap[n].children[k[1]] \notin {0, trie.heap[o].children[k[1]]}

\* the node the characters of key lead to from node id, 0 if a child on the
\* way is missing or id is null
RECURSIVE NodeAt(_, _, _)
NodeAt(h, id, key) ==
    IF id = 0 \/ key = <<>> THEN id ELSE NodeAt(h, h[id].children[Head(key)], Tail(key))

\* Get<T>(key) on the trie versions[ver] is a miss: no node at the end of the
\* key's path (null root included), or a node without a value, or a value of
\* a type other than T
Miss(ver, key, T) ==
    LET n == NodeAt(trie.heap, trie.versions[ver], key)
    IN  \/ n = 0
        \/ ~trie.heap[n].is_value_node
        \/ trie.heap[n].type # T

\* C31: Get returns not-found, without faulting, in every miss case: a child
\* on the key's path is missing, the trie is empty (for any key, the empty one
\* included), the terminal node has no value, or its value's type is not T.
C31_GetMiss ==
    \A ver \in DOMAIN trie.versions, k \in TrieKeys, T \in TrieTypes :
        Miss(ver, k, T) => GetOf(ver, k, T) = {[status |-> "nullptr", value |-> 0]}

\* the leaves that hold key
Holders(key) == {id \in LeafPages : key \in KeysOf(id)}

\* no key was inserted twice: the leaves hold pairwise distinct keys
DistinctKeys ==
    \A id \in LeafPages :
        /\ Cardinality(KeysOf(id)) = tree.pages[id].size
        /\ \A other \in LeafPages \ {id} : KeysOf(id) \cap KeysOf(other) = {}

\* C34: after any sequence of Inserts of pairwise distinct keys, for every
\* inserted key k the descent FindLeafNode(k) from the root id of the header
\* page ends at a leaf that contains k.
C34_Routing ==
    DistinctKeys =>
        \A key \in InsertKeys :
            Holders(key) # {} =>
                /\ FindLeafNode(tree, key) \in LeafPages
                /\ key \in KeysOf(FindLeafNode(tree, key))

\* the pages whose is-root flag is set
RootFlagged == {id \in DOMAIN tree.pages : tree.pages[id].is_root}

\* C35: in every state of a non-empty tree exactly one page has its is-root
\* flag set, the page whose id the header page stores; a root that splits has
\* its flag cleared as the new root is installed.
C35_OneRoot == ~IsEmpty(tree) => RootFlagged = {tree.root}

\* the child pointers of internal page id
ChildrenOf(id) ==
    {tree.pages[id].arr[i].value : i \in {j \in Slots : j < tree.pages[id].size}}

\* C36: after any sequence of Inserts, the parent page id of every page of the
\* tree other than the root names the internal page that holds the child
\* pointer to it, also for the children an internal split moved or kept.
C36_ParentPointers ==
    \A p \in InternalPages \cap TreePages :
        \A id \in ChildrenOf(p) : tree.pages[id].parent = p

(***************************************************************************)
(* The TrieStore (primer/trie_store.cpp).  In its specification trie is    *)
(*   [heap, versions, fault, root, root_lock, write_lock, calls]           *)
(* root the node id of root_, the two locks the thread that holds them (0: *)
(* free), versions the history of the roots root_ has had, calls the       *)
(* number of calls made.  A thread record is                               *)
(*   [pc, op, key, T, value, base, root, result]                           *)
(* base the root it read from root_ (lines 12, 34, 54), root its local     *)
(* variable root after the operation (lines 38, 58), result what its last  *)
(* Get returned: [status, value, node], node the node the ValueGuard's     *)
(* value lives in.                                                         *)
(***************************************************************************)
StoreKeys == {k \in TrieKeys : Len(k) <= MaxStoreKeyLen}

StoreIdle == [pc |-> "idle", op |-> "none", key |-> <<>>, T |-> "none", value |-> 0,
              base |-> 0, root |-> 0,
              result |-> [status |-> "none", value |-> 0, node |-> 0]]

InitStore ==
    /\ BpmInit
    /\ NoGuards
    /\ tree = [pages |-> <<>>, root |-> INVALID_PAGE_ID, next |-> 1]
    /\ stored = <<>>
    /\ tlast = [op |-> "none"]
    /\ threads = [th \in 1 .. MaxStoreThreads |-> StoreIdle]
    /\ trie = [heap |-> <<>>, versions |-> <<0>>, fault |-> FALSE, root |-> 0,
               root_lock |-> 0, write_lock |-> 0, calls |-> 0]

\* thread th calls Get<T>(key), Put<T>(key, value) or Remove(key)
StoreCall(th, op, key, T, value) ==
    /\ ~trie.fault
    /\ threads[th].pc = "idle"
    /\ trie.calls < MaxStoreCalls
    /\ threads' = [threads EXCEPT ![th] =
          [StoreIdle EXCEPT !.pc = IF op = "Get" THEN "lock_read" ELSE "lock_write",
                            !.op = op, !.key = key, !.T = T, !.value = value]]
    /\ trie' = [trie EXCEPT !.calls = @ + 1]

\* a writer that goes on whether write_lock_ is free or not
LockWriteFree(th) ==
    /\ ~trie.fault
    /\ threads[th].pc = "lock_write"
    /\ trie' = [trie EXCEPT !.write_lock = th]
    /\ threads' = [threads EXCEPT ![th].pc = "lock_read"]

\* lines 28, 48: std::unique_lock write_guard(write_lock_)
LockWrite(th) ==
    /\ ~trie.fault
    /\ threads[th].pc = "lock_write"
    /\ trie.write_lock = 0
    /\ trie' = [trie EXCEPT !.write_lock = th]
    /\ threads' = [threads EXCEPT ![th].pc = "lock_read"]

\* lines 11, 33, 42, 53, 62: std::lock_guard lock(root_lock_)
LockRoot(th) ==
    /\ ~trie.fault
    /\ threads[th].pc \in {"lock_read", "lock_swap"}
    /\ trie.root_lock = 0
    /\ trie' = [trie EXCEPT !.root_lock = th]
    /\ threads' = [threads EXCEPT ![th].pc = IF @ = "lock_read" THEN "read" ELSE "swap"]

\* lines 12-13, 34-35, 54-55: root = root_, then the lock_guard is destroyed
Snapshot(th) ==
    /\ ~trie.fault
    /\ threads[th].pc = "read"
    /\ threads' = [threads EXCEPT ![th].pc = "operate", ![th].base = trie.root,
                                  ![th].root = trie.root]
    /\ trie' = [trie EXCEPT !.root_lock = 0]

\* lines 16-23: root.Get<T>(key) and the return of Get; line 38:
\* root.Put(key, value); line 58: root.Remove(key)
Operate(th) ==
    /\ ~trie.fault
    /\ threads[th].pc = "operate"
    /\ LET me == threads[th]
       IN  CASE me.op = "Get" ->
                  \E r \in TrieGet(trie.heap, me.base, me.key, me.T) :
                     IF r.status = "fault"
                     THEN /\ trie' = [trie EXCEPT !.fault = TRUE]
                          /\ UNCHANGED threads
                     ELSE /\ threads' = [threads EXCEPT ![th].pc = "idle",
                                ![th].result =
                                    [status |-> r.status, value |-> r.value,
                                     node |-> IF r.status = "found"
                                              THEN NodeAt(trie.heap, me.base, me.key)
                                              ELSE 0]]
                          /\ UNCHANGED trie
             [] me.op = "Put" ->
                  \E r \in TriePut(trie.heap, me.base, me.key, me.T, me.value) :
                     IF r.fault
                     THEN /\ trie' = [trie EXCEPT !.fault = TRUE]
                          /\ UNCHANGED threads
                     ELSE /\ trie' = [trie EXCEPT !.heap = r.h]
                          /\ threads' = [threads EXCEPT ![th].pc = "lock_swap",
                                                        ![th].root = r.root]
             [] me.op = "Remove" ->
                  LET r == TrieRemove(trie.heap, me.base, me.key)
                  IN  /\ trie' = [trie EXCEPT !.heap = r.h]
                      /\ threads' = [threads EXCEPT ![th].pc = "lock_swap",
                                                    ![th].root = r.root]

\* lines 43-45, 63-65: root_ = std::move(root), then the lock_guard and the
\* write_guard are destroyed and the call returns
Swap(th) ==
    /\ ~trie.fault
    /\ threads[th].pc = "swap"
    /\ trie' = [trie EXCEPT !.root = threads[th].root,
                            !.versions = Append(@, threads[th].root),
                            !.root_lock = 0, !.write_lock = 0]
    /\ threads' = [threads EXCEPT ![th].pc = "idle"]

NextStore ==
    /\ \E th \in DOMAIN threads :
          \/ \E key \in StoreKeys, T \in TrieTypes :
                \/ StoreCall(th, "Get", key, T, 0)
                \/ \E value \in 1 .. MaxTrieValue : StoreCall(th, "Put", key, T, value)
          \/ \E key \in StoreKeys : StoreCall(th, "Remove", key, "none", 0)
          \/ LockWrite(th)
          \/ LockRoot(th)
          \/ Snapshot(th)
          \/ Operate(th)
          \/ Swap(th)
    /\ UNCHANGED <<tree, stored, tlast>>
    /\ UNCHANGED bpmVars
    /\ UNCHANGED guardVars

SpecStore == InitStore /\ [][NextStore]_vars

\* the threads whose last call was a Put, all calls so far being such Puts
PutOnce == {th \in DOMAIN threads : threads[th].op = "Put"}

\* C32: writers are serialized with no lost update: the root a writer is
\* about to install was computed from the root that is installed at that
\* moment, and after N threads each Put a distinct key and all have returned,
\* a fresh Get finds every one of the N keys with its value.
C32_NoLostUpdate ==
    /\ \A th \in DOMAIN threads :
          threads[th].pc \in {"lock_swap", "swap"} => threads[th].base = trie.root
    /\ (/\ Quiescent
        /\ trie.calls = Cardinality(PutOnce)
        /\ \A th \in PutOnce : \A o \in PutOnce \ {th} : threads[th].key # threads[o].key)
          => \A th \in PutOnce :
                TrieGet(trie.heap, trie.root, threads[th].key, threads[th].T)
                   = {[status |-> "found", value |-> threads[th].value]}

\* every thread has Put a key of its own, the calls overlapped (the second
\* root was not computed from the empty trie) and all have returned
C32_Witness ==
    /\ Quiescent
    /\ ~trie.fault
    /\ PutOnce = DOMAIN threads
    /\ trie.calls = MaxStoreThreads
    /\ \A th \in PutOnce : \A o \in PutOnce \ {th} : threads[th].key # threads[o].key
    /\ Len(trie.versions) = 1 + MaxStoreThreads
    /\ \E th \in PutOnce : threads[th].base # 0

\* what looking key up in the trie of root id gives: the value under key if
\* the node at the end of its path has one of type T, not-found otherwise
Lookup(h, id, key, T) ==
    LET n == NodeAt(h, id, key)
    IN  IF n # 0 /\ h[n].is_value_node /\ h[n].type = T
        THEN [status |-> "found", value |-> h[n].value, node |-> n]
        ELSE [status |-> "nullptr", value |-> 0, node |-> 0]

\* C33: every Get returns the result of looking its key up in one root that
\* was the store's root at a moment during the call, the empty root or one a
\* completed swap installed, and a ValueGuard a Get returned keeps yielding
\* the same value whatever Put and Remove calls follow.
C33_Snapshot ==
    /\ [][\A th \in DOMAIN threads :
            /\ Snapshot(th) =>
                  /\ threads'[th].base = trie.root
                  /\ \E ver \in DOMAIN trie.versions : trie.versions[ver] = trie.root
            /\ (Operate(th) /\ threads[th].op = "Get") =>
                  /\ threads'[th].pc = "idle"
                  /\ threads'[th].result =
                        Lookup(trie.heap, threads[th].base, threads[th].key, threads[th].T)]_vars
    /\ [](\A th \in DOMAIN threads :
            threads[th].result.status = "found" =>
                trie.heap[threads[th].result.node].value = threads[th].result.value)

\* The TrieStore under a fair scheduler: a thread that can take a step of a
\* call it has started takes it; a thread that waits for a lock gets it if
\* the lock is free again and again.
SpecStoreFair ==
    /\ InitStore
    /\ [][NextStore]_vars
    /\ \A th \in 1 .. MaxStoreThreads :
          /\ SF_<<threads, trie>>(LockWrite(th))
          /\ SF_<<threads, trie>>(LockRoot(th))
          /\ WF_<<threads, trie>>(Snapshot(th))
          /\ WF_<<threads, trie>>(Operate(th))
          /\ WF_<<threads, trie>>(Swap(th))

\* C37: with a fair scheduler every started call eventually returns, and Get
\* never acquires write_lock.
C37_Progress ==
    /\ \A th \in 1 .. MaxStoreThreads :
          (threads[th].pc # "idle") ~> (threads[th].pc = "idle")
    /\ [][\A th \in 1 .. MaxStoreThreads :
             LockWrite(th) => threads[th].op # "Get"]_vars

====
